---------------------------- MODULE Spec2Model ----------------------------
(***************************************************************************)
(* Combat resolution, ability activation and death handling of Sulis       *)
(* (sulis_module::Rules, sulis_state::ActorState, sulis_state::script).    *)
(***************************************************************************)
EXTENDS Integers, Sequences, FiniteSets, TLC

VARIABLES
    rules,        \* Module::rules(): the loaded Rules record
    ents,         \* the entities of the area: handle -> EntityState / ActorState
    turn_active,  \* area_state.turn_timer.is_active()
    props,        \* the props of the area, in the order they were added
    call,         \* the last operation performed, its arguments and its result
    targeter_data,\* the TargeterData the running ability script holds
    targeter,     \* area_state's targeter: the Targeter installed last, if any
    script_log,   \* the script entry points invoked so far, with their bindings
    lua,          \* the globals of the Lua state of the ScriptState
    cells         \* the borrow flags of the RefCell of every entity

\* the targeting state
targeting == <<targeter_data, targeter, script_log>>

\* the script context and the borrow flags
runtime == <<lua, cells>>

vars ==
    <<rules, ents, turn_active, props, call, targeter_data, targeter, script_log, lua, cells>>

(***************************************************************************)
(* Bounds of the model and constants of the program                        *)
(***************************************************************************)

\* rand::thread_rng().gen_range(1, 101): the roll is uniform in 1..100
RollMin == 1
RollMax == 100

\* largest magnitude of an accuracy / defense stat the model enumerates
MaxStat == 120
\* largest attack-roll threshold the model enumerates
MaxPercentile == 150
\* the larger of the two base_ap values the model enumerates
MaxAp == 4
\* XP above which no further attack is explored
MaxXp == 2
\* number of props above which no further attack is explored
MaxProps == 2
\* number of effects above which no further effect is added
MaxEffects == 2
\* total level above which no further level_up is explored
MaxLevel == 2
\* largest millis_elapsed of an update
MaxMillis == 2
\* number of entries above which nothing is added to selectable / effectable
MaxTargets == 2
\* number of script invocations above which no further targeter is installed
MaxCalls == 1
\* number of scripts run above which no further entry point is invoked
MaxInvocations == 2
\* largest value an attribute of an AttributeList is set to
MaxAttr == 1
\* hit points above which no further remove_hp is explored
MaxHp == 5
\* largest number of items a prop starts with
MaxItems == 3
\* largest radius of a circle shape
MaxRadius == 3
\* largest coordinate of a tile of the area the shapes are laid on
MaxCoord == 3

Rolls == RollMin .. RollMax

\* accuracy and defense values (i32 stats) the model enumerates
Accuracies == {0 - MaxStat, 50, MaxStat}
Defenses == {0, 40, MaxStat}

\* threshold values (u32) from which the rules' percentiles are drawn
Percentiles == {0, 30, 60, 90, MaxPercentile}

\* `(x as u32) >= t` for an i32 x and a u32 threshold t below 2^31: a negative
\* x casts to x + 2^32, which is at least 2^31 and so above every such t
CastGe(x, t) == x < 0 \/ x >= t

HitKinds == {"Miss", "Graze", "Hit", "Crit"}

\* the order Miss < Graze < Hit < Crit
Tier(kind) ==
    CASE kind = "Miss"  -> 0
      [] kind = "Graze" -> 1
      [] kind = "Hit"   -> 2
      [] kind = "Crit"  -> 3

\* the entity handles of the area
Entities == {1, 2}

(***************************************************************************)
(* Authored module data: abilities, bonuses, items, rewards                *)
(***************************************************************************)

AbilityIds == {"strike", "dash", "tough"}

\* a script body: whether the chunk loads, and the steps its function takes
Script(loads, steps) == [loads |-> loads, steps |-> steps]

\* Ability records: "strike" and "dash" carry an active payload (ap, duration,
\* script), "tough" is passive (active is None); the scripts of the module
\* activate the ability on the parent
Ability(id) ==
    CASE id = "strike" -> [id |-> id, active |-> TRUE, ap |-> 3, duration |-> 2,
                           script |-> Script(TRUE, <<"activate">>)]
      [] id = "dash"   -> [id |-> id, active |-> TRUE, ap |-> 1, duration |-> 1,
                           script |-> Script(TRUE, <<"activate">>)]
      [] id = "tough"  -> [id |-> id, active |-> FALSE, ap |-> 0, duration |-> 0,
                           script |-> Script(FALSE, <<>>)]

NoAttack == "none"

\* a bonus list: numeric bonuses and an optional attack
Bonus(accuracy, defense, max_hp, attack) ==
    [accuracy |-> accuracy, defense |-> defense, max_hp |-> max_hp, attack |-> attack]

\* items of the module: two weapons and a ring (equippable, no attack)
Sword == [id |-> "sword", equippable |-> TRUE, bonuses |-> Bonus(0, 0, 0, "sword")]
Dagger == [id |-> "dagger", equippable |-> TRUE, bonuses |-> Bonus(0, 0, 0, "dagger")]
Ring == [id |-> "ring", equippable |-> TRUE, bonuses |-> Bonus(0, 0, 1, NoAttack)]

\* a consumable: not equippable
Potion == [id |-> "potion", equippable |-> FALSE, bonuses |-> Bonus(0, 0, 0, NoAttack)]

\* the items every inventory holds, in the order of the slots they go to
InventoryItems == <<Sword, Dagger, Ring, Potion>>

\* the slot an equippable item goes to
ItemSlot(item) ==
    CASE item.id = "sword"  -> "main_hand"
      [] item.id = "dagger" -> "off_hand"
      [] item.id = "ring"   -> "finger"

Slots == {"main_hand", "off_hand", "finger"}

\* the equipment sets the model enumerates for the first entity
Loadouts == { <<>>, <<Sword, Dagger>> }

LootTable == {"gold", "gem"}
LootChances == {50, 100}

\* actor.reward: None, or Some(Reward { xp, loot: Option<LootList>, loot_chance })
NoReward ==
    [some |-> FALSE, xp |-> 0, loot_some |-> FALSE, loot |-> {}, loot_chance |-> 0]

Rewards ==
    {NoReward}
    \cup {[some |-> TRUE, xp |-> 1, loot_some |-> FALSE, loot |-> {}, loot_chance |-> 0]}
    \cup {[some |-> TRUE, xp |-> 1, loot_some |-> TRUE, loot |-> LootTable,
           loot_chance |-> c] : c \in LootChances}

\* the props defined by the module
ModuleProps == {"loot_pile"}

\* Module::prop(id): Some(prop) iff the module defines it
Module_prop_some(id) == id \in ModuleProps

\* the Actor record of an entity
Actor(race_stats, class_bonus, level, abilities, reward) ==
    [race |-> [base_stats |-> race_stats],
     levels |-> << [bonuses_per_level |-> class_bonus, level |-> level] >>,
     total_level |-> level,
     abilities |-> abilities,
     reward |-> reward,
     xp |-> 0]

(***************************************************************************)
(* Rules::attack_roll                                                      *)
(***************************************************************************)

\* faulty variant: the Hit and Graze arms are exchanged
attack_roll_arms_swapped(r, roll, accuracy, defense) ==
    IF roll + accuracy < defense THEN "Miss"
    ELSE LET result == roll + accuracy - defense IN
         IF CastGe(result, r.crit_percentile) THEN "Crit"
         ELSE IF CastGe(result, r.hit_percentile) THEN "Graze"
         ELSE IF CastGe(result, r.graze_percentile) THEN "Hit"
         ELSE "Miss"

\* faulty variant: the comparisons against the hit and graze thresholds are swapped
attack_roll_swapped(r, roll, accuracy, defense) ==
    IF roll + accuracy < defense THEN "Miss"
    ELSE LET result == roll + accuracy - defense IN
         IF CastGe(result, r.crit_percentile) THEN "Crit"
         ELSE IF CastGe(result, r.graze_percentile) THEN "Hit"
         ELSE IF CastGe(result, r.hit_percentile) THEN "Graze"
         ELSE "Miss"

\* faulty variant: the early return for roll + accuracy < defense is missing
attack_roll_no_guard(r, roll, accuracy, defense) ==
    LET result == roll + accuracy - defense IN
    IF CastGe(result, r.crit_percentile) THEN "Crit"
    ELSE IF CastGe(result, r.hit_percentile) THEN "Hit"
    ELSE IF CastGe(result, r.graze_percentile) THEN "Graze"
    ELSE "Miss"

\* the hit kind for a given roll (the roll is the random input)
attack_roll(r, roll, accuracy, defense) ==
    IF roll + accuracy < defense THEN "Miss"
    ELSE LET result == roll + accuracy - defense IN
         IF CastGe(result, r.crit_percentile) THEN "Crit"
         ELSE IF CastGe(result, r.hit_percentile) THEN "Hit"
         ELSE IF CastGe(result, r.graze_percentile) THEN "Graze"
         ELSE "Miss"

(***************************************************************************)
(* Attribute and AttributeList (sulis_rules/src/attribute.rs)              *)
(***************************************************************************)

\* the variants of the enum Attribute, by discriminant
Strength == 0
Dexterity == 1
Endurance == 2
Perception == 3
Intellect == 4
Wisdom == 5

\* ATTRS_LIST
ATTRS_LIST == <<Strength, Dexterity, Endurance, Perception, Intellect, Wisdom>>

Attributes == {ATTRS_LIST[i] : i \in 1 .. Len(ATTRS_LIST)}

\* faulty variant: two arms of the match give the same attribute
Attribute_from_merged(text) ==
    CASE text = "Strength" -> <<Strength>>
      [] text = "Dexterity" -> <<Dexterity>>
      [] text = "Endurance" -> <<Endurance>>
      [] text = "Perception" -> <<Perception>>
      [] text = "Intellect" -> <<Wisdom>>
      [] text = "Wisdom" -> <<Wisdom>>
      [] OTHER -> <<>>

\* Attribute::from(text): Some(attribute) for its name, None for any other text
Attribute_from(text) ==
    CASE text = "Strength" -> <<Strength>>
      [] text = "Dexterity" -> <<Dexterity>>
      [] text = "Endurance" -> <<Endurance>>
      [] text = "Perception" -> <<Perception>>
      [] text = "Intellect" -> <<Intellect>>
      [] text = "Wisdom" -> <<Wisdom>>
      [] OTHER -> <<>>

\* Attribute::name
Attribute_name(attr) ==
    CASE attr = Strength -> "Strength"
      [] attr = Dexterity -> "Dexterity"
      [] attr = Endurance -> "Endurance"
      [] attr = Perception -> "Perception"
      [] attr = Intellect -> "Intellect"
      [] attr = Wisdom -> "Wisdom"

\* Attribute::short_name
Attribute_short_name(attr) ==
    CASE attr = Strength -> "str"
      [] attr = Dexterity -> "dex"
      [] attr = Endurance -> "end"
      [] attr = Perception -> "per"
      [] attr = Intellect -> "int"
      [] attr = Wisdom -> "wis"

\* AttributeList::new(base_value)
AttributeList_new(base_value) == [attr \in Attributes |-> base_value]

\* AttributeList::set(attr, value)
AttributeList_set(list, attr, value) == [list EXCEPT ![attr] = value]

\* the texts handed to Attribute::from: the names, the short names, names in
\* another case or with a blank, and the empty text
Texts ==
    {Attribute_name(a) : a \in Attributes}
        \cup {Attribute_short_name(a) : a \in Attributes}
        \cup {"strength", "WISDOM", "Wisdom ", ""}

(***************************************************************************)
(* AbilityState (sulis_state::ability_state)                               *)
(***************************************************************************)

\* AbilityState::new(ability): not on cooldown
AbilityState_new(ability) ==
    [activate_ap |-> ability.ap, duration |-> ability.duration, remaining_duration |-> 0]

AbilityState_activate_ap(state) == state.activate_ap

\* available means not on cooldown
AbilityState_is_available(state) == state.remaining_duration = 0

\* marks the start of the cooldown
AbilityState_activate(state) == [state EXCEPT !.remaining_duration = state.duration]

(***************************************************************************)
(* StatList (sulis_rules::stat_list)                                       *)
(***************************************************************************)

StatList_new ==
    [accuracy |-> 0, defense |-> 0, max_hp |-> 0, initiative |-> 0,
     attacks |-> <<>>, damage_multiplier |-> 100]

\* faulty variant: max_hp is overwritten by the bonus instead of raised by it
StatList_add_multiple_overwrite(stats, bonuses, times) ==
    [stats EXCEPT !.accuracy = @ + times * bonuses.accuracy,
                  !.defense = @ + times * bonuses.defense,
                  !.max_hp = times * bonuses.max_hp]

\* StatList::add_multiple(bonuses, times); add is add_multiple(bonuses, 1)
StatList_add_multiple(stats, bonuses, times) ==
    [stats EXCEPT !.accuracy = @ + times * bonuses.accuracy,
                  !.defense = @ + times * bonuses.defense,
                  !.max_hp = @ + times * bonuses.max_hp]

StatList_add(stats, bonuses) == StatList_add_multiple(stats, bonuses, 1)

\* StatList::finalize(attacks, multiplier, base_attr); multipliers in percent
StatList_finalize(stats, attacks_list, multiplier) ==
    [stats EXCEPT !.attacks = attacks_list, !.damage_multiplier = multiplier]

\* rules.get_xp_for_next_level(level)
get_xp_for_next_level(r, level) == r.xp_per_level * level

(***************************************************************************)
(* ActorState (sulis_state/src/actor_state.rs)                             *)
(***************************************************************************)

RECURSIVE AddLevels(_, _, _)
\* the loop over actor.levels of compute_stats
AddLevels(stats, levels, i) ==
    IF i > Len(levels) THEN stats
    ELSE AddLevels(StatList_add_multiple(stats, levels[i].bonuses_per_level, levels[i].level),
                   levels, i + 1)

RECURSIVE AddEquipped(_, _, _, _)
\* the loop over inventory.equipped_iter() of compute_stats: the stats with the
\* equippable bonuses added, and the attacks of the equipped items
AddEquipped(stats, attacks_list, equipped, i) ==
    IF i > Len(equipped) THEN [stats |-> stats, attacks_list |-> attacks_list]
    ELSE IF ~equipped[i].equippable THEN AddEquipped(stats, attacks_list, equipped, i + 1)
    ELSE AddEquipped(StatList_add(stats, equipped[i].bonuses),
                     IF equipped[i].bonuses.attack # NoAttack
                        THEN Append(attacks_list, equipped[i].bonuses.attack)
                        ELSE attacks_list,
                     equipped, i + 1)

RECURSIVE AddEffects(_, _, _)
\* the loop over the effects of compute_stats
AddEffects(stats, effects, i) ==
    IF i > Len(effects) THEN stats
    ELSE AddEffects(StatList_add(stats, effects[i].bonuses), effects, i + 1)

\* attacks_list and multiplier of compute_stats, from the attacks of the
\* equipped items and the base attack of the race
FinalAttacks(equipped_attacks, base_attack) ==
    IF equipped_attacks = <<>>
       THEN (IF base_attack # NoAttack THEN <<base_attack>> ELSE <<>>)
       ELSE equipped_attacks

FinalMultiplier(equipped_attacks, r) ==
    IF equipped_attacks = <<>> THEN 100
    ELSE IF Len(equipped_attacks) > 1 THEN r.dual_wield_damage_multiplier
    ELSE 100

\* the four bonus sources of compute_stats, in the order the code adds them
SourceOrder == <<"race", "levels", "equipped", "effects">>

\* one bonus source of compute_stats added to the stats
AddSource(stats, a, source) ==
    CASE source = "race"     -> StatList_add(stats, a.actor.race.base_stats)
      [] source = "levels"   -> AddLevels(stats, a.actor.levels, 1)
      [] source = "equipped" -> AddEquipped(stats, <<>>, a.equipped, 1).stats
      [] source = "effects"  -> AddEffects(stats, a.effects, 1)

RECURSIVE AddSources(_, _, _, _)
AddSources(stats, a, order, i) ==
    IF i > Len(order) THEN stats
    ELSE AddSources(AddSource(stats, a, order[i]), a, order, i + 1)

\* compute_stats with the four bonus sources added in the given order
compute_stats_ordered(a, r, order) ==
    LET s0 == [StatList_new EXCEPT !.initiative = r.base_initiative]
        s1 == AddSources(s0, a, order, 1)
        equipped_attacks == AddEquipped(s0, <<>>, a.equipped, 1).attacks_list
    IN  [a EXCEPT !.stats = StatList_finalize(s1,
                                FinalAttacks(equipped_attacks, a.actor.race.base_stats.attack),
                                FinalMultiplier(equipped_attacks, r)),
                  !.has_level_up = (get_xp_for_next_level(r, a.actor.total_level) <= a.xp)]

\* faulty variant: the bonuses are added onto the previous snapshot
compute_stats_accumulating(a, r) ==
    LET s0 == [a.stats EXCEPT !.initiative = r.base_initiative]
        s1 == AddSources(s0, a, SourceOrder, 1)
        equipped_attacks == AddEquipped(s0, <<>>, a.equipped, 1).attacks_list
    IN  [a EXCEPT !.stats = StatList_finalize(s1,
                                FinalAttacks(equipped_attacks, a.actor.race.base_stats.attack),
                                FinalMultiplier(equipped_attacks, r)),
                  !.has_level_up = (get_xp_for_next_level(r, a.actor.total_level) <= a.xp)]

\* faulty variant: a single weapon attack already gets the dual-wield multiplier
compute_stats_dual_at_one(a, r) ==
    LET s0 == [StatList_new EXCEPT !.initiative = r.base_initiative]
        s1 == AddSources(s0, a, SourceOrder, 1)
        equipped_attacks == AddEquipped(s0, <<>>, a.equipped, 1).attacks_list
    IN  [a EXCEPT !.stats = StatList_finalize(s1,
                                FinalAttacks(equipped_attacks, a.actor.race.base_stats.attack),
                                IF equipped_attacks = <<>> THEN 100
                                ELSE r.dual_wield_damage_multiplier),
                  !.has_level_up = (get_xp_for_next_level(r, a.actor.total_level) <= a.xp)]

\* ActorState::compute_stats on the actor state a
compute_stats(a, r) ==
    LET s0 == [StatList_new EXCEPT !.initiative = r.base_initiative]
        s1 == StatList_add(s0, a.actor.race.base_stats)
        s2 == AddLevels(s1, a.actor.levels, 1)
        eq == AddEquipped(s2, <<>>, a.equipped, 1)
        base_attack == a.actor.race.base_stats.attack
        attacks_list ==
            IF eq.attacks_list = <<>>
               THEN (IF base_attack # NoAttack THEN <<base_attack>> ELSE <<>>)
               ELSE eq.attacks_list
        multiplier ==
            IF eq.attacks_list = <<>> THEN 100
            ELSE IF Len(eq.attacks_list) > 1 THEN r.dual_wield_damage_multiplier
            ELSE 100
        s3 == AddEffects(eq.stats, a.effects, 1)
    IN  [a EXCEPT !.stats = StatList_finalize(s3, attacks_list, multiplier),
                  !.has_level_up = (get_xp_for_next_level(r, a.actor.total_level) <= a.xp)]

\* ActorState::new(actor): the ability states of the abilities with an active payload
new_ability_states(actor) ==
    [id \in {i \in actor.abilities : Ability(i).active} |-> AbilityState_new(Ability(id))]

\* ActorState::new(actor), with the entity's location
ActorState_new(actor, equipped, location) ==
    [actor |-> actor,
     equipped |-> equipped,
     stats |-> StatList_new,
     hp |-> 0,
     ap |-> 0,
     xp |-> actor.xp,
     has_level_up |-> FALSE,
     effects |-> <<>>,
     ability_states |-> new_ability_states(actor),
     location |-> location]

\* faulty variant: the AP comparison is missing
can_activate_no_ap(a, id) ==
    IF id \notin DOMAIN a.ability_states THEN FALSE
    ELSE AbilityState_is_available(a.ability_states[id])

\* ActorState::can_activate
can_activate(a, id) ==
    IF id \notin DOMAIN a.ability_states THEN FALSE
    ELSE IF a.ap < AbilityState_activate_ap(a.ability_states[id]) THEN FALSE
    ELSE AbilityState_is_available(a.ability_states[id])

\* ActorState::activate_ability_state
activate_ability_state(a, id) ==
    IF id \notin DOMAIN a.ability_states THEN a
    ELSE [a EXCEPT !.ability_states[id] = AbilityState_activate(@)]

\* ActorState::init
init(a) == [a EXCEPT !.hp = a.stats.max_hp]

\* ActorState::init_turn
init_turn(a, r) == IF a.ap # r.base_ap THEN [a EXCEPT !.ap = r.base_ap] ELSE a

\* ActorState::end_turn
end_turn(a) == IF a.ap # 0 THEN [a EXCEPT !.ap = 0] ELSE a

\* faulty variant: the stats are not recomputed
add_xp_no_recompute(a, xp, r) == [a EXCEPT !.xp = @ + xp]

\* ActorState::add_xp
add_xp(a, xp, r) == compute_stats([a EXCEPT !.xp = @ + xp], r)

\* faulty variant: the subtraction is made without the comparison
remove_ap_unchecked(a, ap) == [a EXCEPT !.ap = a.ap - ap]

\* ActorState::remove_ap (ap is u32)
remove_ap(a, ap) == [a EXCEPT !.ap = IF ap > a.ap THEN 0 ELSE a.ap - ap]

\* i32::MAX
I32Max == 2147483647

\* a u32 value: its top bit and its low 31 bits
U32(high, low) == [high |-> high, low |-> low]

\* u32::MAX
U32Max == U32(TRUE, I32Max)

\* `hp as i32`: the value itself below 2^31, and the value less 2^32 from
\* there on
as_i32(n) == IF n.high THEN (n.low - I32Max) - 1 ELSE n.low

\* ActorState::remove_hp (hp is u32, self.hp is i32): the comparison and the
\* subtraction are made with `hp as i32`
remove_hp(a, hp) ==
    [a EXCEPT !.hp = IF as_i32(hp) > a.hp THEN 0 ELSE a.hp - as_i32(hp)]

(***************************************************************************)
(* Inventory, Effect and the cooldown tick of AbilityState                 *)
(***************************************************************************)

\* the set of the elements of a sequence
Range(seq) == {seq[i] : i \in 1 .. Len(seq)}

\* the items of InventoryItems that are in the set, in slot order: the order
\* of inventory.equipped_iter()
EquippedIter(items) == SelectSeq(InventoryItems, LAMBDA it : it \in items)

\* Inventory::equip(index): the item at the index is put into its slot; false
\* and no change for an index without an item, for an item that is not
\* equippable and for an item that is equipped already
Inventory_equip(equipped, index) ==
    IF index \notin 1 .. Len(InventoryItems) THEN [result |-> FALSE, equipped |-> equipped]
    ELSE IF ~InventoryItems[index].equippable THEN [result |-> FALSE, equipped |-> equipped]
    ELSE IF InventoryItems[index] \in Range(equipped)
         THEN [result |-> FALSE, equipped |-> equipped]
    ELSE [result |-> TRUE,
          equipped |-> EquippedIter(Range(equipped) \cup {InventoryItems[index]})]

\* Inventory::unequip(slot): the slot is emptied; false for an empty slot
Inventory_unequip(equipped, slot) ==
    IF \A it \in Range(equipped) : ItemSlot(it) # slot
    THEN [result |-> FALSE, equipped |-> equipped]
    ELSE [result |-> TRUE,
          equipped |-> SelectSeq(equipped, LAMBDA it : ItemSlot(it) # slot)]

\* Effect::update(millis_elapsed): the remaining duration runs down to zero
Effect_update(effect, millis) ==
    [effect EXCEPT !.remaining = IF millis > @ THEN 0 ELSE @ - millis]

\* Effect::is_removal: the remaining duration has reached zero
Effect_is_removal(effect) == effect.remaining = 0

\* AbilityState::update(millis_elapsed): the cooldown runs down to zero
AbilityState_update(state, millis) ==
    [state EXCEPT !.remaining_duration = IF millis > @ THEN 0 ELSE @ - millis]

(***************************************************************************)
(* ActorState::take_all and ActorState::take                               *)
(***************************************************************************)

\* PropState::num_items
PropState_num_items(prop_state) == Len(prop_state.items)

\* PropState::remove_item(index): the item at the index (from 0) is taken out
\* of the list and returned; an index outside the list panics
PropState_remove_item(prop_state, index) ==
    IF index < 0 \/ index >= Len(prop_state.items)
    THEN [panicked |-> TRUE, prop_state |-> prop_state, item_state |-> <<>>]
    ELSE [panicked |-> FALSE,
          prop_state |-> [prop_state EXCEPT !.items =
                            SubSeq(@, 1, index) \o SubSeq(@, index + 2, Len(@))],
          item_state |-> <<prop_state.items[index + 1]>>]

\* Inventory::add(item_state): the item is put at the end of the items
Inventory_add(items, item_state) == Append(items, item_state)

RECURSIVE TakeAllLoop(_, _, _)
\* the loop of take_all from index i down to 0
TakeAllLoop(items, prop_state, i) ==
    LET removed == PropState_remove_item(prop_state, i)
    IN  IF removed.panicked
        THEN [panicked |-> TRUE, items |-> items, prop_state |-> prop_state]
        ELSE LET added == Inventory_add(items, removed.item_state[1])
             IN  IF i = 0
                 THEN [panicked |-> FALSE, items |-> added,
                       prop_state |-> removed.prop_state]
                 ELSE TakeAllLoop(added, removed.prop_state, i - 1)

\* the outcome of take_all and take: the actor, the props of the area,
\* whether the listeners of the actor were notified and whether the call
\* panicked
Taken(a, ps, prop_index, res, notified) ==
    [self |-> [a EXCEPT !.inventory = res.items],
     props |-> [ps EXCEPT ![prop_index] = res.prop_state],
     notified |-> notified /\ ~res.panicked,
     panicked |-> res.panicked]

\* faulty variant: the test for an empty prop is missing
take_all_no_empty_test(a, ps, prop_index) ==
    Taken(a, ps, prop_index,
          TakeAllLoop(a.inventory, ps[prop_index],
                      PropState_num_items(ps[prop_index]) - 1), TRUE)

\* ActorState::take_all(prop_index)
take_all(a, ps, prop_index) ==
    IF PropState_num_items(ps[prop_index]) > 0
    THEN Taken(a, ps, prop_index,
               TakeAllLoop(a.inventory, ps[prop_index],
                           PropState_num_items(ps[prop_index]) - 1), TRUE)
    ELSE [self |-> a, props |-> ps, notified |-> FALSE, panicked |-> FALSE]

\* ActorState::take(prop_index, item_index)
take(a, ps, prop_index, item_index) ==
    LET removed == PropState_remove_item(ps[prop_index], item_index)
    IN  Taken(a, ps, prop_index,
              [panicked |-> removed.panicked,
               items |-> IF removed.panicked THEN a.inventory
                         ELSE Inventory_add(a.inventory, removed.item_state[1]),
               prop_state |-> removed.prop_state], TRUE)

(***************************************************************************)
(* ActorState: equipment, effects, update and level_up                     *)
(***************************************************************************)

\* ActorState::equip: the actor state and the result of Inventory::equip
equip(a, index, r) ==
    LET inv == Inventory_equip(a.equipped, index)
    IN  [self |-> compute_stats([a EXCEPT !.equipped = inv.equipped], r),
         result |-> inv.result]

\* ActorState::unequip
unequip(a, slot, r) ==
    LET inv == Inventory_unequip(a.equipped, slot)
    IN  [self |-> compute_stats([a EXCEPT !.equipped = inv.equipped], r),
         result |-> inv.result]

\* ActorState::add_effect
add_effect(a, effect, r) == compute_stats([a EXCEPT !.effects = Append(@, effect)], r)

\* the first two loops and the retain of update: effects and ability states
\* are ticked, the effects up for removal are dropped
UpdateTicked(a, millis) ==
    LET ticked == [i \in 1 .. Len(a.effects) |-> Effect_update(a.effects[i], millis)]
    IN  [a EXCEPT !.effects = SelectSeq(ticked, LAMBDA e : ~Effect_is_removal(e)),
                  !.ability_states = [id \in DOMAIN @ |-> AbilityState_update(@[id], millis)]]

\* faulty variant: the stats are not recomputed when an effect was removed
update_no_recompute(a, millis, r) == UpdateTicked(a, millis)

\* faulty variant: the effects up for removal are retained
update_keeps_expired(a, millis, r) ==
    LET ticked == [i \in 1 .. Len(a.effects) |-> Effect_update(a.effects[i], millis)]
    IN  [a EXCEPT !.effects = ticked,
                  !.ability_states = [id \in DOMAIN @ |-> AbilityState_update(@[id], millis)]]

\* the test `start_len != self.effects.len()` of update: compute_stats, whose
\* last statement notifies the listeners, is called iff it holds
update_notifies(a, millis) == Len(a.effects) # Len(UpdateTicked(a, millis).effects)

\* faulty variant: the stats are recomputed in every update
update_always_recomputes(a, millis, r) == compute_stats(UpdateTicked(a, millis), r)

\* ActorState::update
update(a, millis, r) ==
    LET ticked == UpdateTicked(a, millis)
    IN  IF update_notifies(a, millis) THEN compute_stats(ticked, r) ELSE ticked

\* faulty variant: an ability state is inserted for every ability of the new
\* actor, the passive ones included
level_up_all_abilities(a, new_actor, r) ==
    LET fresh == new_actor.abilities
        states == [id \in DOMAIN a.ability_states \cup fresh |->
                     IF id \in fresh THEN AbilityState_new(Ability(id))
                     ELSE a.ability_states[id]]
    IN  init(compute_stats([a EXCEPT !.actor = new_actor, !.ability_states = states], r))

\* ActorState::level_up(new_actor): the loop inserts a fresh ability state for
\* every ability of the new actor with an active payload; the other entries
\* of the map stay
level_up(a, new_actor, r) ==
    LET fresh == {i \in new_actor.abilities : Ability(i).active}
        states == [id \in DOMAIN a.ability_states \cup fresh |->
                     IF id \in fresh THEN AbilityState_new(Ability(id))
                     ELSE a.ability_states[id]]
    IN  init(compute_stats([a EXCEPT !.actor = new_actor, !.ability_states = states], r))

(***************************************************************************)
(* Script host API (sulis_state/src/script/mod.rs)                         *)
(***************************************************************************)

\* ScriptAbility::from(ability): the id, duration and AP cost of the active payload
ScriptAbility_from(ability) ==
    [id |-> ability.id, duration |-> ability.duration, ap |-> ability.ap]

\* faulty variant: the AP is spent whether or not a turn is active
activate_always_spends(es, turn, ability, target) ==
    LET spent == [es EXCEPT ![target] = remove_ap(@, ability.ap)]
    IN  [spent EXCEPT ![target] = activate_ability_state(@, ability.id)]

\* the script operation ability.activate(target) on the entities es
activate(es, turn, ability, target) ==
    LET spent == IF turn THEN [es EXCEPT ![target] = remove_ap(@, ability.ap)] ELSE es
    IN  [spent EXCEPT ![target] = activate_ability_state(@, ability.id)]

(***************************************************************************)
(* ActorState::attack and ActorState::check_death                          *)
(***************************************************************************)

\* the rolls the model draws for an attack: a Miss, a Hit and a Crit with
\* accuracy 50 against defense 40 under the thresholds 30 / 60 / 90
AttackRolls == {RollMin, 50, RollMax}

\* the results of Attack::roll_damage the model draws: (kind, amount) lists,
\* here the amounts only
Damages == { <<>>, <<U32(FALSE, 1)>>, <<U32(FALSE, 2), U32(FALSE, 1)>> }

\* the same and an amount of u32::MAX, which the type of the amounts admits
RolledDamages == Damages \cup { <<U32Max>> }

\* the rolls of the probability gate of the loot roll the model draws
GateRolls == {RollMin, RollMax}

RECURSIVE SumSeq(_)
\* the sum of a sequence of numbers
SumSeq(s) == IF s = <<>> THEN 0 ELSE Head(s) + SumSeq(Tail(s))

\* LootList::generate_with_chance: the probability gate, then the roll on the
\* item table (pick: the items it yields, at least one)
generate_with_chance(loot, chance, gate_roll, pick) ==
    IF gate_roll <= chance THEN pick ELSE {}

\* AreaState::add_prop(prop_data, location, true)
add_prop(ps, prop, location, items) ==
    Append(ps, [prop |-> prop, location |-> location, items |-> items])

\* a + b on u32, wrapping
u32_add(a, b) ==
    LET carry == a.low > I32Max - b.low
    IN  U32((a.high # b.high) # carry,
            IF carry THEN (a.low - (I32Max - b.low)) - 1 ELSE a.low + b.low)

RECURSIVE SumU32(_)
\* the loop `for (_kind, amount) in damage { total += amount; }` on u32
SumU32(s) == IF s = <<>> THEN U32(FALSE, 0) ELSE u32_add(Head(s), SumU32(Tail(s)))

MissEntry == [kind |-> "Miss", total |-> U32(FALSE, 0)]

RECURSIVE AttackLoop(_, _, _, _, _)
\* the loop over self.stats.attacks, from attack i on. st holds the target, the
\* entries of damage_str, the color and the events so far; inputs[i] is the roll
\* and the rolled damage of attack i
AttackLoop(self, r, inputs, i, st) ==
    IF i > Len(self.stats.attacks) THEN st
    ELSE
        LET hit_kind == attack_roll(r, inputs[i].roll, self.stats.accuracy,
                                    st.target.stats.defense)
            damage == inputs[i].damage
            total == SumU32(damage)
        IN  IF hit_kind = "Miss"
            THEN AttackLoop(self, r, inputs, i + 1,
                    [st EXCEPT !.damage_str = Append(@, MissEntry),
                               !.events = Append(@, "roll")])
            ELSE IF damage # <<>>
            THEN AttackLoop(self, r, inputs, i + 1,
                    [st EXCEPT !.target = remove_hp(@, total),
                               !.color = "RED",
                               !.damage_str = Append(@, [kind |-> hit_kind, total |-> total]),
                               !.events = @ \o <<"roll", "remove_hp">>])
            ELSE AttackLoop(self, r, inputs, i + 1,
                    [st EXCEPT !.damage_str = Append(@, [kind |-> hit_kind, total |-> U32(FALSE, 0)]),
                               !.events = Append(@, "roll")])

\* a borrow of the RefCell of the target at a line of the source, released
\* at the end of its statement: borrow() or borrow_mut(), and whether the
\* listeners of the target are notified while it is held
Site(line, kind, notify) == [line |-> line, kind |-> kind, notify |-> notify]

RECURSIVE AttackLoopSites(_, _, _, _, _)
\* the borrows of the target in the loop over self.stats.attacks: the read of
\* its defense, the read of its armor unless the roll is a Miss, and
\* remove_hp when damage was rolled
AttackLoopSites(self, target, r, inputs, i) ==
    IF i > Len(self.stats.attacks) THEN <<>>
    ELSE
        LET hit_kind == attack_roll(r, inputs[i].roll, self.stats.accuracy,
                                    target.stats.defense)
        IN  (IF hit_kind = "Miss" THEN <<Site(153, "borrow", FALSE)>>
             ELSE IF inputs[i].damage # <<>>
             THEN <<Site(153, "borrow", FALSE), Site(168, "borrow", FALSE),
                    Site(179, "borrow_mut", TRUE)>>
             ELSE <<Site(153, "borrow", FALSE), Site(168, "borrow", FALSE)>>)
            \o AttackLoopSites(self, target, r, inputs, i + 1)

\* the borrows of the target in ActorState::attack and check_death, in
\* program order; hp_after is the hp of the target when the loop is done
attack_sites(es, r, attacker, target, inputs, hp_after) ==
    IF es[target].hp <= 0 THEN <<Site(140, "borrow_mut", FALSE)>>
    ELSE <<Site(140, "borrow_mut", FALSE)>>
         \o AttackLoopSites(es[attacker], es[target], r, inputs, 1)
         \o <<Site(244, "borrow", FALSE)>>
         \o (IF hp_after > 0 THEN <<>> ELSE <<Site(246, "borrow", FALSE)>>)

\* the borrows of the target in the script method ability:activate
activate_sites(turn) ==
    (IF turn THEN <<Site(212, "borrow_mut", TRUE)>> ELSE <<>>)
        \o <<Site(215, "borrow_mut", FALSE)>>

\* RefCell::borrow / borrow_mut: the borrow is refused, with a panic, when a
\* mutable borrow is held, and borrow_mut also when a shared one is
BorrowRefused(cell, kind) ==
    cell.mut \/ (kind = "borrow_mut" /\ cell.shared > 0)

\* the cell with the borrow taken
Borrowed(cell, kind) ==
    IF kind = "borrow_mut" THEN [cell EXCEPT !.mut = TRUE]
    ELSE [cell EXCEPT !.shared = @ + 1]

\* the cell with the borrow dropped
Dropped(cell, kind) ==
    IF kind = "borrow_mut" THEN [cell EXCEPT !.mut = FALSE]
    ELSE [cell EXCEPT !.shared = @ - 1]

NoDeath(self, ps) == [self |-> self, props |-> ps, events |-> <<>>, items |-> {}]

\* faulty variant: the test of the rolled items is inverted
check_death_inverted_empty(self, target, r, ps, gate_roll, pick) ==
    IF target.hp > 0 THEN NoDeath(self, ps)
    ELSE IF ~target.actor.reward.some THEN NoDeath(self, ps)
    ELSE
        LET reward == target.actor.reward
            rewarded == add_xp(self, reward.xp, r)
            items == generate_with_chance(reward.loot, reward.loot_chance, gate_roll, pick)
        IN  IF ~reward.loot_some
            THEN [self |-> rewarded, props |-> ps, events |-> <<"add_xp">>, items |-> {}]
            ELSE IF ~Module_prop_some(r.loot_drop_prop)
            THEN [self |-> rewarded, props |-> ps, events |-> <<"add_xp">>, items |-> {}]
            ELSE IF items # {}
            THEN [self |-> rewarded, props |-> ps,
                  events |-> <<"add_xp", "loot_roll">>, items |-> items]
            ELSE [self |-> rewarded,
                  props |-> add_prop(ps, r.loot_drop_prop, target.location, items),
                  events |-> <<"add_xp", "loot_roll", "add_prop">>, items |-> items]

\* faulty variant: the XP is awarded last, after the loot has been dropped
check_death_xp_last(self, target, r, ps, gate_roll, pick) ==
    IF target.hp > 0 THEN NoDeath(self, ps)
    ELSE IF ~target.actor.reward.some THEN NoDeath(self, ps)
    ELSE
        LET reward == target.actor.reward
            rewarded == add_xp(self, reward.xp, r)
            items == generate_with_chance(reward.loot, reward.loot_chance, gate_roll, pick)
        IN  IF ~reward.loot_some THEN NoDeath(self, ps)
            ELSE IF ~Module_prop_some(r.loot_drop_prop) THEN NoDeath(self, ps)
            ELSE IF items = {}
            THEN [self |-> self, props |-> ps, events |-> <<"loot_roll">>, items |-> items]
            ELSE [self |-> rewarded,
                  props |-> add_prop(ps, r.loot_drop_prop, target.location, items),
                  events |-> <<"loot_roll", "add_prop", "add_xp">>, items |-> items]

\* faulty variant: the test of the hit points of the target is missing
check_death_any_hp(self, target, r, ps, gate_roll, pick) ==
    IF ~target.actor.reward.some THEN NoDeath(self, ps)
    ELSE
        LET reward == target.actor.reward
            rewarded == add_xp(self, reward.xp, r)
            items == generate_with_chance(reward.loot, reward.loot_chance, gate_roll, pick)
        IN  IF ~reward.loot_some
            THEN [self |-> rewarded, props |-> ps, events |-> <<"add_xp">>, items |-> {}]
            ELSE IF ~Module_prop_some(r.loot_drop_prop)
            THEN [self |-> rewarded, props |-> ps, events |-> <<"add_xp">>, items |-> {}]
            ELSE IF items = {}
            THEN [self |-> rewarded, props |-> ps,
                  events |-> <<"add_xp", "loot_roll">>, items |-> items]
            ELSE [self |-> rewarded,
                  props |-> add_prop(ps, r.loot_drop_prop, target.location, items),
                  events |-> <<"add_xp", "loot_roll", "add_prop">>, items |-> items]

\* ActorState::check_death: the attacker, the props, the steps taken in their
\* order and the rolled items
check_death(self, target, r, ps, gate_roll, pick) ==
    IF target.hp > 0 THEN NoDeath(self, ps)
    ELSE IF ~target.actor.reward.some THEN NoDeath(self, ps)
    ELSE
        LET reward == target.actor.reward
            rewarded == add_xp(self, reward.xp, r)
            items == generate_with_chance(reward.loot, reward.loot_chance, gate_roll, pick)
        IN  IF ~reward.loot_some
            THEN [self |-> rewarded, props |-> ps, events |-> <<"add_xp">>, items |-> {}]
            ELSE IF ~Module_prop_some(r.loot_drop_prop)
            THEN [self |-> rewarded, props |-> ps, events |-> <<"add_xp">>, items |-> {}]
            ELSE IF items = {}
            THEN [self |-> rewarded, props |-> ps,
                  events |-> <<"add_xp", "loot_roll">>, items |-> items]
            ELSE [self |-> rewarded,
                  props |-> add_prop(ps, r.loot_drop_prop, target.location, items),
                  events |-> <<"add_xp", "loot_roll", "add_prop">>, items |-> items]

\* the end of ActorState::attack: check_death on the target as the loop left
\* it, and the returned (damage_str, color)
AttackFinish(es, ps, r, attacker, target, st, death) ==
    [ents |-> [es EXCEPT ![target] = st.target, ![attacker] = death.self],
     props |-> death.props,
     ret |-> [damage_str |-> st.damage_str, color |-> st.color],
     events |-> st.events \o death.events,
     items |-> death.items]

\* ActorState::attack past the test of line 140: the loop, then check_death
AttackBody(es, ps, r, attacker, target, inputs, gate_roll, pick) ==
    LET st == AttackLoop(es[attacker], r, inputs, 1,
                  [target |-> es[target], damage_str |-> <<>>, color |-> "GRAY",
                   events |-> <<>>])
    IN  AttackFinish(es, ps, r, attacker, target, st,
                     check_death(es[attacker], st.target, r, ps, gate_roll, pick))

\* faulty variant: the test for a dead target is missing
attack_no_dead_check(es, ps, r, attacker, target, inputs, gate_roll, pick) ==
    AttackBody(es, ps, r, attacker, target, inputs, gate_roll, pick)

\* ActorState::attack of entity `attacker` on entity `target`
attack(es, ps, r, attacker, target, inputs, gate_roll, pick) ==
    IF es[target].hp <= 0
    THEN [ents |-> es, props |-> ps,
          ret |-> [damage_str |-> <<MissEntry>>, color |-> "GRAY"],
          events |-> <<>>, items |-> {}]
    ELSE AttackBody(es, ps, r, attacker, target, inputs, gate_roll, pick)

(***************************************************************************)
(* Script entry points (sulis_state/src/script/mod.rs)                     *)
(***************************************************************************)

\* nil, and a bound value
Unbound == <<>>

Bound(v) == <<v>>

\* ScriptState::new: the globals of a fresh Lua state, `game` aside: the three
\* names every invocation binds, the extra named argument and a global a
\* script defines
ScriptState_new ==
    [parent |-> Unbound, ability |-> Unbound, targets |-> Unbound,
     arg |-> Unbound, user |-> Unbound]

\* the handle of an entity that has left the area
StaleHandle == 3

\* ScriptEntity::try_unwrap / try_unwrap_index: Ok iff the handle resolves
\* to an entity of the area, an error for an entity that is gone
try_unwrap_ok(handle) == handle \in Entities

\* the script method ability:activate(target): the error of try_unwrap is
\* passed on by `?`
ScriptAbility_activate(es, turn, ability, handle) ==
    IF ~try_unwrap_ok(handle) THEN [ok |-> FALSE, ents |-> es]
    ELSE [ok |-> TRUE, ents |-> activate(es, turn, ability, handle)]

\* the script method ability:create_callback(parent)
create_callback(ability, handle) ==
    IF ~try_unwrap_ok(handle) THEN [ok |-> FALSE, cb |-> Unbound]
    ELSE [ok |-> TRUE, cb |-> Bound([parent |-> handle, ability_id |-> ability.id])]

\* faulty variant: every ability has a script
get_script_ok_any(ability) == TRUE

\* get_script(ability): Ok(script) iff the ability has an active payload
get_script_ok(ability) == ability.active

\* the assertion of ScriptAbility::from(ability): the ability has an active
\* payload
ScriptAbility_from_asserted(ability) == ability.active

\* ScriptEntitySet::new(parent, targets), with the point not set
ScriptEntitySet_new(parent, targets) ==
    [parent |-> parent, indices |-> targets, point |-> <<>>]

RECURSIVE RunSteps(_, _, _, _, _, _)
\* func.call: the steps of the script function run in turn on the globals
\* and the entities; an error, raised by the script or by a host method,
\* ends the run and leaves what the earlier steps did
RunSteps(steps, i, st, turn, ability, parent) ==
    IF i > Len(steps) THEN st
    ELSE CASE steps[i] = "error" -> [st EXCEPT !.ok = FALSE]
           [] steps[i] = "define" ->
                RunSteps(steps, i + 1, [st EXCEPT !.lua.user = Bound(ability.id)],
                         turn, ability, parent)
           [] steps[i] \in {"activate", "activate_stale"} ->
                LET res == ScriptAbility_activate(st.ents, turn, ability,
                               IF steps[i] = "activate" THEN parent ELSE StaleHandle)
                IN  IF res.ok
                    THEN RunSteps(steps, i + 1, [st EXCEPT !.ents = res.ents],
                                  turn, ability, parent)
                    ELSE [st EXCEPT !.ok = FALSE]

\* ScriptState::execute_script: parent is bound, the chunk is loaded and the
\* function is called; the call is appended to the log
execute_script(log, lu, es, turn, parent, script, func) ==
    LET lua1 == [lu EXCEPT !.parent = Bound(parent)]
    IN  IF ~script.loads
        THEN [ok |-> FALSE, ran |-> FALSE, seen |-> lua1, log |-> log, lua |-> lua1,
              ents |-> es, panicked |-> FALSE]
        ELSE LET run == RunSteps(script.steps, 1, [ok |-> TRUE, lua |-> lua1, ents |-> es],
                                 turn, lua1.ability[1], parent)
             IN  [ok |-> run.ok,
                  ran |-> TRUE,
                  seen |-> lua1,
                  log |-> Append(log, [func |-> func, parent |-> parent,
                                       ability |-> lua1.ability[1],
                                       targets |-> lua1.targets[1]]),
                  lua |-> run.lua,
                  ents |-> run.ents,
                  panicked |-> FALSE]

\* faulty variant: ability and targets are bound before the script is looked up
ability_script_binds_first(log, lu, es, turn, parent, ability, targets, arg, func) ==
    LET lua1 == [lu EXCEPT !.ability = Bound(ScriptAbility_from(ability)),
                           !.targets = Bound(targets),
                           !.arg = IF arg # Unbound THEN arg ELSE @]
    IN  IF ~get_script_ok(ability)
        THEN [ok |-> FALSE, ran |-> FALSE, seen |-> lua1, log |-> log, lua |-> lua1,
              ents |-> es, panicked |-> FALSE]
        ELSE execute_script(log, lua1, es, turn, parent, ability.script, func)

\* ScriptState::ability_script: an error before anything is bound for an
\* ability without a script, else ability, targets and the extra argument,
\* if any, are bound and the function is executed; the call panics if the
\* assertion of ScriptAbility::from fails
ability_script(log, lu, es, turn, parent, ability, targets, arg, func) ==
    IF ~get_script_ok(ability)
    THEN [ok |-> FALSE, ran |-> FALSE, seen |-> lu, log |-> log, lua |-> lu, ents |-> es,
          panicked |-> FALSE]
    ELSE IF ~ScriptAbility_from_asserted(ability)
    THEN [ok |-> FALSE, ran |-> FALSE, seen |-> lu, log |-> log, lua |-> lu, ents |-> es,
          panicked |-> TRUE]
    ELSE execute_script(log,
                        [lu EXCEPT !.ability = Bound(ScriptAbility_from(ability)),
                                   !.targets = Bound(targets),
                                   !.arg = IF arg # Unbound THEN arg ELSE @],
                        es, turn, parent, ability.script, func)

\* ScriptState::ability_on_activate
ability_on_activate(log, lu, es, turn, parent, ability) ==
    ability_script(log, lu, es, turn, parent, ability,
                   ScriptEntitySet_new(parent, <<>>), Unbound, "on_activate")

\* ScriptState::ability_on_target_select
ability_on_target_select(log, lu, es, turn, parent, ability, targets, selected_point) ==
    ability_script(log, lu, es, turn, parent, ability,
                   [ScriptEntitySet_new(parent, targets) EXCEPT !.point = selected_point],
                   Unbound, "on_target_select")

(***************************************************************************)
(* TargeterData and Targeter (sulis_state/src/script/targeter.rs)          *)
(***************************************************************************)

\* the tiles of the area the cursor can be moved to
Points == {<<0, 0>>, <<1, 2>>, <<2, 2>>}

\* the tiles the parent can be placed on: its own and a free one
PassableTiles == {<<0, 0>>, <<2, 2>>}

\* the object sizes the module defines
ObjectSizes == {"1by1"}

\* Module::object_size(id): Some iff the module defines the size
Module_object_size_some(id) == id \in ObjectSizes

\* the tiles of the area the shapes are laid on
Tiles == (0 .. MaxCoord) \X (0 .. MaxCoord)

\* the radii of a circle shape
Radii == 0 .. MaxRadius

\* the origin of a line shape
LineOrigins == {<<0, 0>>}

\* the origins of a cone shape, in halves of a tile, and its angles
ConeOrigins == {<<1, 0>>, <<3, 2>>}

ConeAngles == {1}

\* None for a handle, a point or a size
NoEntity == 0
NoPoint == <<>>
NoSize == "none"

\* TargeterData::new(parent, ability_id)
TargeterData_new(parent, ability_id) ==
    [ability_id |-> ability_id,
     parent |-> parent,
     selectable |-> <<>>,
     effectable |-> <<>>,
     shape |-> [kind |-> "Single"],
     show_mouseover |-> TRUE,
     free_select_must_be_passable |-> NoSize]

\* the script method add_selectable(target): the error of try_unwrap_index
\* is passed on by `?`
add_selectable(data, target) ==
    IF ~try_unwrap_ok(target) THEN [ok |-> FALSE, data |-> data]
    ELSE [ok |-> TRUE, data |-> [data EXCEPT !.selectable = Append(@, target)]]

\* the script method add_effectable(target)
add_effectable(data, target) ==
    IF ~try_unwrap_ok(target) THEN [ok |-> FALSE, data |-> data]
    ELSE [ok |-> TRUE, data |-> [data EXCEPT !.effectable = Append(@, target)]]

\* the methods of the game interface: is_passable(entity, x, y)
is_passable(target, point) ==
    IF ~try_unwrap_ok(target) THEN [ok |-> FALSE, ret |-> FALSE]
    ELSE [ok |-> TRUE, ret |-> point \in PassableTiles]

\* the script method set_free_select_must_be_passable(val): an error and no
\* change for a size the module does not define
set_free_select_must_be_passable(data, val) ==
    IF ~Module_object_size_some(val) THEN [ok |-> FALSE, data |-> data]
    ELSE [ok |-> TRUE, data |-> [data EXCEPT !.free_select_must_be_passable = val]]

\* the script method set_shape_circle(radius)
set_shape_circle(data, radius) ==
    [ok |-> TRUE, data |-> [data EXCEPT !.shape = [kind |-> "Circle", radius |-> radius]]]

\* faulty variant: the line is stored before its size is looked up
set_shape_line_unchecked(data, size, origin_x, origin_y) ==
    [ok |-> Module_object_size_some(size),
     data |-> [data EXCEPT !.shape = [kind |-> "Line", size |-> size,
                                      origin_x |-> origin_x, origin_y |-> origin_y]]]

\* the script method set_shape_line(size, origin_x, origin_y): an error and
\* no change for a size the module does not define
set_shape_line(data, size, origin_x, origin_y) ==
    IF ~Module_object_size_some(size) THEN [ok |-> FALSE, data |-> data]
    ELSE [ok |-> TRUE,
          data |-> [data EXCEPT !.shape = [kind |-> "Line", size |-> size,
                                           origin_x |-> origin_x, origin_y |-> origin_y]]]

\* the script method set_shape_object_size(size)
set_shape_object_size(data, size) ==
    IF ~Module_object_size_some(size) THEN [ok |-> FALSE, data |-> data]
    ELSE [ok |-> TRUE, data |-> [data EXCEPT !.shape = [kind |-> "ObjectSize", size |-> size]]]

\* f32::floor() as i32 of a coordinate given in halves of a tile
Floor(halves) == halves \div 2

\* the script method set_shape_cone(origin_x, origin_y, radius, angle), the
\* origin given in halves of a tile
set_shape_cone(data, origin_x, origin_y, radius, angle) ==
    [ok |-> TRUE,
     data |-> [data EXCEPT !.shape = [kind |-> "Cone", origin_x |-> Floor(origin_x),
                                      origin_y |-> Floor(origin_y),
                                      radius |-> radius, angle |-> angle]]]

\* the square of the Euclidean distance of two tiles
Dist2(p, q) == (p[1] - q[1]) * (p[1] - q[1]) + (p[2] - q[2]) * (p[2] - q[2])

\* faulty variant: a tile on the boundary of the circle is rejected
Circle_accepts_inside(radius, origin, tile) == Dist2(tile, origin) < radius * radius

\* the containment test of Shape::Circle: the tile is within radius of the
\* origin
Circle_accepts(radius, origin, tile) == Dist2(tile, origin) <= radius * radius

\* AreaTargeter::from(data): an active targeter with nothing under the cursor
AreaTargeter_from(data) ==
    [state |-> "Active",
     ability_id |-> data.ability_id,
     parent |-> data.parent,
     selectable |-> data.selectable,
     effectable |-> data.effectable,
     shape |-> data.shape,
     free_select_must_be_passable |-> data.free_select_must_be_passable,
     cursor |-> NoPoint,
     cur_target |-> NoEntity]

\* faulty variant: the effectable entities are not handed to the targeter
Targeter_activate_no_effectable(data) ==
    [AreaTargeter_from(data) EXCEPT !.effectable = <<>>]

\* the script method activate of a TargeterData: area_state.set_targeter puts
\* the new targeter in the place of the one installed before
Targeter_activate(data) == AreaTargeter_from(data)

\* the entity standing on a tile, if any
EntityAt(es, point) ==
    IF \E e \in Entities : es[e].location = point
    THEN CHOOSE e \in Entities : es[e].location = point
    ELSE NoEntity

\* Targeter::on_mouse_move: the candidate under the cursor, a selectable
\* entity or none
on_mouse_move(t, es, point) ==
    IF t.state # "Active" THEN t
    ELSE [t EXCEPT !.cursor = point,
                   !.cur_target = IF EntityAt(es, point) \in Range(t.selectable)
                                  THEN EntityAt(es, point) ELSE NoEntity]

\* the constraints of the ability on the current selection
SelectionValid(t) ==
    /\ t.cur_target # NoEntity
    /\ t.cur_target \in Range(t.selectable)
    /\ t.free_select_must_be_passable # NoSize => t.cursor \in PassableTiles

\* faulty variant: the selection is committed whether or not it is valid
on_activate_unchecked(t, es, turn, log, lu) ==
    IF t.state # "Active"
    THEN [targeter |-> t, ents |-> es, log |-> log, lua |-> lu]
    ELSE LET res == ability_on_target_select(log, lu, es, turn, t.parent,
                                             Ability(t.ability_id), t.effectable, t.cursor)
         IN  [targeter |-> [t EXCEPT !.state = "Committed"],
              ents |-> res.ents,
              log |-> res.log,
              lua |-> res.lua]

\* faulty variant: a committed or cancelled targeter commits again
on_activate_any_state(t, es, turn, log, lu) ==
    IF t.state = "Inactive" \/ ~SelectionValid(t)
    THEN [targeter |-> t, ents |-> es, log |-> log, lua |-> lu]
    ELSE LET res == ability_on_target_select(log, lu, es, turn, t.parent,
                                             Ability(t.ability_id), t.effectable, t.cursor)
         IN  [targeter |-> [t EXCEPT !.state = "Committed"],
              ents |-> res.ents,
              log |-> res.log,
              lua |-> res.lua]

\* faulty variant: the targets handed to the script are the selectable entities
on_activate_selectable(t, es, turn, log, lu) ==
    IF t.state # "Active" \/ ~SelectionValid(t)
    THEN [targeter |-> t, ents |-> es, log |-> log, lua |-> lu]
    ELSE LET res == ability_on_target_select(log, lu, es, turn, t.parent,
                                             Ability(t.ability_id), t.selectable, t.cursor)
         IN  [targeter |-> [t EXCEPT !.state = "Committed"],
              ents |-> res.ents,
              log |-> res.log,
              lua |-> res.lua]

\* Targeter::on_activate: a valid selection of an active targeter is
\* committed and handed to on_target_select with the effectable entities and
\* the committed point; anything else changes nothing
on_activate(t, es, turn, log, lu) ==
    IF t.state # "Active" \/ ~SelectionValid(t)
    THEN [targeter |-> t, ents |-> es, log |-> log, lua |-> lu]
    ELSE LET res == ability_on_target_select(log, lu, es, turn, t.parent,
                                             Ability(t.ability_id), t.effectable, t.cursor)
         IN  [targeter |-> [t EXCEPT !.state = "Committed"],
              ents |-> res.ents,
              log |-> res.log,
              lua |-> res.lua]

\* faulty variant: a cancel with a valid selection commits it
on_cancel_commits(t, es, turn, log) ==
    IF t.state = "Active" /\ SelectionValid(t)
    THEN LET res == on_activate(t, es, turn, log, ScriptState_new)
         IN  [targeter |-> res.targeter, ents |-> res.ents, log |-> res.log]
    ELSE IF t.state = "Active"
         THEN [targeter |-> [t EXCEPT !.state = "Cancelled"], ents |-> es, log |-> log]
    ELSE [targeter |-> t, ents |-> es, log |-> log]

\* faulty variant: a cancel ends the turn of the parent
on_cancel_ends_turn(t, es, turn, log) ==
    IF t.state = "Active"
    THEN [targeter |-> [t EXCEPT !.state = "Cancelled"],
          ents |-> [es EXCEPT ![t.parent] = end_turn(@)],
          log |-> log]
    ELSE [targeter |-> t, ents |-> es, log |-> log]

\* Targeter::on_cancel: an active targeter is cancelled and nothing else
\* changes
on_cancel(t, es, turn, log) ==
    IF t.state = "Active"
    THEN [targeter |-> [t EXCEPT !.state = "Cancelled"], ents |-> es, log |-> log]
    ELSE [targeter |-> t, ents |-> es, log |-> log]

(***************************************************************************)
(* Initial states                                                          *)
(***************************************************************************)

\* the rules with the given thresholds, base AP and loot drop prop
Rules(graze, hit, crit, base_ap, loot_drop_prop) ==
    [graze_percentile |-> graze, hit_percentile |-> hit, crit_percentile |-> crit,
     base_ap |-> base_ap, base_initiative |-> 0,
     dual_wield_damage_multiplier |-> 75,
     xp_per_level |-> 2,
     loot_drop_prop |-> loot_drop_prop]

\* the legally ordered threshold triples
RuleSets ==
    { Rules(t[1], t[2], t[3], MaxAp, "loot_pile") :
        t \in { t \in Percentiles \X Percentiles \X Percentiles :
                  t[1] < t[2] /\ t[2] < t[3] } }

\* the two entities as ActorState::new leaves them: the first with the given
\* equipment and no reward, the second without any attack and with the given
\* reward
NewEntities(loadout, reward) ==
    [e \in Entities |->
        IF e = 1
        THEN ActorState_new(Actor(Bonus(50, 40, 2, "fist"), Bonus(0, 0, 1, NoAttack), 1,
                                  AbilityIds, NoReward),
                            loadout, <<0, 0>>)
        ELSE ActorState_new(Actor(Bonus(50, 40, 2, NoAttack), Bonus(0, 0, 1, NoAttack), 1,
                                  {"dash", "tough"}, reward),
                            <<>>, <<1, 2>>)]

NoCall == [op |-> "none"]

\* no script has created a TargeterData, no targeter is installed, no script
\* entry point has been invoked
NoTargeterData == [ability_id |-> "none"]

NoTargeter == [state |-> "Inactive"]

NoTargeting ==
    /\ targeter_data = NoTargeterData
    /\ targeter = NoTargeter
    /\ script_log = <<>>

\* no RefCell of an entity is borrowed
Unborrowed == [e \in Entities |-> [mut |-> FALSE, shared |-> 0]]

\* the ScriptState is new and no entity is borrowed
FreshRuntime ==
    /\ lua = ScriptState_new
    /\ cells = Unborrowed

\* the entity the equipment, effect and level operations act on
StatEntities == {1}

\* the effects scripts apply: bonuses and a duration
Effects ==
    {[bonuses |-> Bonus(5, 0, 0, NoAttack), remaining |-> 2],
     [bonuses |-> Bonus(0, 3, 1, NoAttack), remaining |-> 1]}

\* the millis_elapsed values of an update
Ticks == 1 .. MaxMillis

\* the actor record after gaining a level in its class: its abilities become
\* the given ones
LevelUpActor(actor, abilities) ==
    [actor EXCEPT !.levels[1].level = @ + 1,
                  !.total_level = @ + 1,
                  !.abilities = abilities]

\* the abilities a level-up leaves the actor with: "strike" is traded away
LevelUpAbilities == {{"dash", "tough"}}

InitRoll ==
    /\ rules \in RuleSets
    /\ ents = NewEntities(<<>>, NoReward)
    /\ turn_active = FALSE
    /\ props = <<>>
    /\ call = NoCall
    /\ NoTargeting
    /\ FreshRuntime

InitAbility ==
    /\ rules \in { Rules(30, 60, 90, b, "loot_pile") : b \in {2, MaxAp} }
    /\ ents = NewEntities(<<>>, NoReward)
    /\ turn_active \in BOOLEAN
    /\ props = <<>>
    /\ call = NoCall
    /\ NoTargeting
    /\ FreshRuntime

InitAttack ==
    /\ rules \in { Rules(30, 60, 90, MaxAp, p) : p \in {"loot_pile", "missing"} }
    /\ ents \in { NewEntities(l, rw) : l \in Loadouts, rw \in Rewards }
    /\ turn_active = FALSE
    /\ props = <<>>
    /\ call = NoCall
    /\ NoTargeting
    /\ FreshRuntime

InitStats ==
    /\ rules = Rules(30, 60, 90, MaxAp, "loot_pile")
    /\ ents \in { NewEntities(l, NoReward) : l \in Loadouts }
    /\ turn_active = FALSE
    /\ props = <<>>
    /\ call = NoCall
    /\ NoTargeting
    /\ FreshRuntime

\* an ability script of the first entity has created a TargeterData; the
\* entities are at the start of their turn
InitTargeter ==
    /\ rules = Rules(30, 60, 90, MaxAp, "loot_pile")
    /\ ents = [e \in Entities |-> init_turn(NewEntities(<<>>, NoReward)[e], rules)]
    /\ turn_active \in BOOLEAN
    /\ props = <<>>
    /\ call = [op |-> "create_targeter"]
    /\ targeter_data \in {TargeterData_new(1, id) : id \in {"strike", "dash"}}
    /\ targeter = NoTargeter
    /\ script_log = <<>>
    /\ FreshRuntime

\* the script bodies of the module: one that activates its ability, one that
\* fails after it has, one that defines a global, one that activates on an
\* entity that has left the area and then defines a global, one that does
\* not load
Scripts ==
    {Script(TRUE, <<"activate">>), Script(TRUE, <<"activate", "error">>),
     Script(TRUE, <<"define">>), Script(TRUE, <<"activate_stale", "define">>),
     Script(FALSE, <<>>)}

\* the abilities handed to the entry points: strike with each script body
\* and the passive ability
ScriptedAbilities ==
    {[Ability("strike") EXCEPT !.script = script] : script \in Scripts}
        \cup {Ability("tough")}

\* the extra named argument of an ability_script call
ScriptArgs == {Bound("graze")}

\* the entities are placed, their stats computed and their hp filled; entity
\* 2 carries a reward
InitReward ==
    /\ rules \in { Rules(30, 60, 90, MaxAp, p) : p \in {"loot_pile", "missing"} }
    /\ ents \in { [e \in Entities |-> init(compute_stats(NewEntities(l, rw)[e], rules))] :
                    l \in Loadouts, rw \in Rewards }
    /\ turn_active = FALSE
    /\ props = <<>>
    /\ call = NoCall
    /\ NoTargeting
    /\ FreshRuntime

\* the first entity carries two weapons, the second an XP reward without
\* loot; their stats are computed and their hp filled
InitXp ==
    /\ rules = Rules(30, 60, 90, MaxAp, "loot_pile")
    /\ ents = [e \in Entities |->
                 init(compute_stats(
                     NewEntities(<<Sword, Dagger>>,
                                 [NoReward EXCEPT !.some = TRUE, !.xp = 1])[e], rules))]
    /\ turn_active = FALSE
    /\ props = <<>>
    /\ call = NoCall
    /\ NoTargeting
    /\ FreshRuntime

\* the item states props hold
ItemStates == {"sword", "potion"}

\* the item lists a prop starts with
RECURSIVE ItemLists(_)
ItemLists(n) ==
    IF n = 0 THEN {<<>>}
    ELSE ItemLists(n - 1)
         \cup {Append(s, it) : s \in {l \in ItemLists(n - 1) : Len(l) = n - 1},
                                 it \in ItemStates}

\* the actor state a with the items of its inventory
WithInventory(a, items) ==
    [f \in DOMAIN a \cup {"inventory"} |-> IF f = "inventory" THEN items ELSE a[f]]

\* the area holds two props, the second with one item; the inventories are
\* empty
InitTake ==
    /\ rules = Rules(30, 60, 90, MaxAp, "loot_pile")
    /\ ents = [e \in Entities |-> WithInventory(NewEntities(<<>>, NoReward)[e], <<>>)]
    /\ turn_active = FALSE
    /\ props \in { <<[prop |-> "loot_pile", location |-> <<1, 2>>, items |-> items],
                      [prop |-> "loot_pile", location |-> <<2, 2>>, items |-> <<"ring">>]>> :
                    items \in ItemLists(MaxItems) }
    /\ call = NoCall
    /\ NoTargeting
    /\ FreshRuntime

\* the amounts handed to remove_hp: the small ones and the two largest of
\* u32, for which hp - (hp as i32) stays within i32
HpAmounts ==
    {U32(FALSE, n) : n \in 0 .. MaxHp + 1} \cup {U32Max, U32(TRUE, I32Max - 1)}

\* the entities are placed, their stats computed and their hp filled
InitHp ==
    /\ rules = Rules(30, 60, 90, MaxAp, "loot_pile")
    /\ ents = [e \in Entities |->
                 init(compute_stats(NewEntities(<<>>, NoReward)[e], rules))]
    /\ turn_active = FALSE
    /\ props = <<>>
    /\ call = NoCall
    /\ NoTargeting
    /\ FreshRuntime

\* an AttributeList is made with every attribute at 0
InitAttr ==
    /\ rules = Rules(30, 60, 90, MaxAp, "loot_pile")
    /\ ents = NewEntities(<<>>, NoReward)
    /\ turn_active = FALSE
    /\ props = <<>>
    /\ call = [op |-> "new", attrs |-> AttributeList_new(0)]
    /\ NoTargeting
    /\ FreshRuntime

\* an id that is the id of no ability of the module
UnknownId == "unknown"

\* the ids can_activate and activate_ability_state are called with
LookupIds == AbilityIds \cup {UnknownId}

\* the entities are placed and the turn of each has begun
InitLevel ==
    /\ rules = Rules(30, 60, 90, MaxAp, "loot_pile")
    /\ ents = [e \in Entities |-> init_turn(NewEntities(<<>>, NoReward)[e], rules)]
    /\ turn_active = FALSE
    /\ props = <<>>
    /\ call = NoCall
    /\ NoTargeting
    /\ FreshRuntime

\* the calls that run borrow by borrow
RunOps == {"attack_run", "activate_run"}

\* no call is under way
Idle == IF call.op \in RunOps THEN call.phase \in {"returned", "panicked"} ELSE TRUE

\* the entities are placed, their stats computed and their hp filled
InitBorrow ==
    /\ rules = Rules(30, 60, 90, MaxAp, "loot_pile")
    /\ ents = [e \in Entities |->
                 init_turn(init(compute_stats(
                     NewEntities(<<>>, [NoReward EXCEPT !.some = TRUE, !.xp = 1])[e],
                     rules)), rules)]
    /\ turn_active \in BOOLEAN
    /\ props = <<>>
    /\ call = NoCall
    /\ NoTargeting
    /\ FreshRuntime

\* the area is loaded and no script has run
InitScript ==
    /\ rules = Rules(30, 60, 90, MaxAp, "loot_pile")
    /\ ents = [e \in Entities |-> init_turn(NewEntities(<<>>, NoReward)[e], rules)]
    /\ turn_active \in BOOLEAN
    /\ props = <<>>
    /\ call = [op |-> "init"]
    /\ NoTargeting
    /\ FreshRuntime

\* a script has made the TargeterData of an ability and is about to set its
\* shape
InitShape ==
    /\ rules = Rules(30, 60, 90, MaxAp, "loot_pile")
    /\ ents = [e \in Entities |-> init_turn(NewEntities(<<>>, NoReward)[e], rules)]
    /\ turn_active = FALSE
    /\ props = <<>>
    /\ call = [op |-> "create_targeter"]
    /\ targeter_data = TargeterData_new(1, "strike")
    /\ targeter = NoTargeter
    /\ script_log = <<>>
    /\ FreshRuntime

(***************************************************************************)
(* Actions                                                                 *)
(***************************************************************************)

\* one call of Rules::attack_roll
AttackRoll ==
    \E roll \in Rolls, accuracy \in Accuracies, defense \in Defenses :
        /\ call' = [op |-> "attack_roll", roll |-> roll, accuracy |-> accuracy,
                    defense |-> defense,
                    ret |-> attack_roll(rules, roll, accuracy, defense)]
        /\ UNCHANGED <<rules, ents, turn_active, props, targeting, runtime>>

\* ActorState::can_activate(id) on entity e
CanActivate ==
    \E e \in Entities, id \in AbilityIds :
        /\ call' = [op |-> "can_activate", entity |-> e, id |-> id,
                    ret |-> can_activate(ents[e], id)]
        /\ UNCHANGED <<rules, ents, turn_active, props, targeting, runtime>>

\* the script operation ability.activate(target), for an ability with a script
AbilityActivate ==
    \E id \in {i \in AbilityIds : Ability(i).active}, target \in Entities :
        /\ ents' = activate(ents, turn_active, ScriptAbility_from(Ability(id)), target)
        /\ call' = [op |-> "activate", id |-> id, target |-> target]
        /\ UNCHANGED <<rules, turn_active, props, targeting, runtime>>

\* ActorState::remove_ap(ap), for an amount up to one above the base AP
RemoveAp ==
    \E e \in Entities, ap \in 0 .. MaxAp + 1 :
        /\ ents' = [ents EXCEPT ![e] = remove_ap(@, ap)]
        /\ call' = [op |-> "remove_ap", entity |-> e, ap |-> ap]
        /\ UNCHANGED <<rules, turn_active, props, targeting, runtime>>

\* ActorState::init_turn
InitTurn ==
    \E e \in Entities :
        /\ ents' = [ents EXCEPT ![e] = init_turn(@, rules)]
        /\ call' = [op |-> "init_turn", entity |-> e]
        /\ UNCHANGED <<rules, turn_active, props, targeting, runtime>>

\* ActorState::end_turn
EndTurn ==
    \E e \in Entities :
        /\ ents' = [ents EXCEPT ![e] = end_turn(@)]
        /\ call' = [op |-> "end_turn", entity |-> e]
        /\ UNCHANGED <<rules, turn_active, props, targeting, runtime>>

\* the turn timer of the area starts or stops the turn-based encounter
TurnTimerSet ==
    /\ turn_active' = ~turn_active
    /\ call' = [op |-> "turn_timer"]
    /\ UNCHANGED <<rules, ents, props, targeting, runtime>>

\* ActorState::compute_stats
ComputeStats ==
    \E e \in Entities :
        /\ ents' = [ents EXCEPT ![e] = compute_stats(@, rules)]
        /\ call' = [op |-> "compute_stats", entity |-> e]
        /\ UNCHANGED <<rules, turn_active, props, targeting, runtime>>

\* ActorState::init
InitActor ==
    \E e \in Entities :
        /\ ents' = [ents EXCEPT ![e] = init(@)]
        /\ call' = [op |-> "init", entity |-> e]
        /\ UNCHANGED <<rules, turn_active, props, targeting, runtime>>

\* the roll and the rolled damage of one attack of `self` on `target`:
\* roll_damage is not called for a Miss, which draws no damage
AttackInput(self, target, r, damages) ==
    { x \in [roll : AttackRolls, damage : damages] :
        attack_roll(r, x.roll, self.stats.accuracy, target.stats.defense) = "Miss"
            => x.damage = <<>> }

\* the rolls of the loot gate drawn for a death of `target`: one when
\* check_death cannot reach the loot roll
GateInput(target) ==
    IF target.actor.reward.some /\ target.actor.reward.loot_some
    THEN GateRolls ELSE {RollMin}

\* the yields of the item table drawn for a death of `target`: at least one
\* item of its loot table
PickInput(target) ==
    IF target.actor.reward.some /\ target.actor.reward.loot_some
    THEN (SUBSET target.actor.reward.loot) \ {{}} ELSE {{}}

\* ActorState::attack of one entity on another, roll_damage yielding one of
\* `damages`
AttackWith(damages) ==
    \E attacker \in Entities :
      /\ ents[attacker].xp < MaxXp
      /\ Len(props) < MaxProps
      /\ \E target \in Entities \ {attacker} :
        \E inputs \in [1 .. Len(ents[attacker].stats.attacks) ->
                          AttackInput(ents[attacker], ents[target], rules, damages)],
           gate_roll \in GateInput(ents[target]),
           pick \in PickInput(ents[target]) :
          \E res \in {attack(ents, props, rules, attacker, target, inputs, gate_roll, pick)} :
              /\ ents' = res.ents
              /\ props' = res.props
              /\ call' = [op |-> "attack", attacker |-> attacker, target |-> target,
                          ret |-> res.ret, events |-> res.events, items |-> res.items]
              /\ UNCHANGED <<rules, turn_active, targeting, runtime>>

\* ActorState::attack with one of the damages of the model
Attack == AttackWith(Damages)

\* ActorState::attack with any damage the type of roll_damage admits
AttackRolled ==
    /\ \A e \in Entities : ents[e].hp <= MaxHp
    /\ AttackWith(RolledDamages)

\* ActorState::add_xp(xp)
AddXp ==
    \E e \in Entities, xp \in 0 .. MaxXp :
        /\ ents[e].xp < MaxXp
        /\ ents' = [ents EXCEPT ![e] = add_xp(@, xp, rules)]
        /\ call' = [op |-> "add_xp", entity |-> e, xp |-> xp]
        /\ UNCHANGED <<rules, turn_active, props, targeting, runtime>>

\* ActorState::equip(index)
Equip ==
    \E e \in StatEntities, index \in 1 .. Len(InventoryItems) :
        \E res \in {equip(ents[e], index, rules)} :
            /\ ents' = [ents EXCEPT ![e] = res.self]
            /\ call' = [op |-> "equip", entity |-> e, index |-> index, ret |-> res.result]
            /\ UNCHANGED <<rules, turn_active, props, targeting, runtime>>

\* ActorState::unequip(slot)
Unequip ==
    \E e \in StatEntities, slot \in Slots :
        \E res \in {unequip(ents[e], slot, rules)} :
            /\ ents' = [ents EXCEPT ![e] = res.self]
            /\ call' = [op |-> "unequip", entity |-> e, slot |-> slot, ret |-> res.result]
            /\ UNCHANGED <<rules, turn_active, props, targeting, runtime>>

\* ActorState::add_effect(effect)
AddEffect ==
    \E e \in StatEntities, effect \in Effects :
        /\ Len(ents[e].effects) < MaxEffects
        /\ ents' = [ents EXCEPT ![e] = add_effect(@, effect, rules)]
        /\ call' = [op |-> "add_effect", entity |-> e, effect |-> effect]
        /\ UNCHANGED <<rules, turn_active, props, targeting, runtime>>

\* ActorState::update(millis_elapsed)
Update ==
    \E e \in StatEntities, millis \in Ticks :
        \E self \in {update(ents[e], millis, rules)} :
            /\ ents' = [ents EXCEPT ![e] = self]
            /\ call' = [op |-> "update", entity |-> e, millis |-> millis,
                        removed |-> Len(ents[e].effects) - Len(self.effects),
                        notified |-> update_notifies(ents[e], millis)]
            /\ UNCHANGED <<rules, turn_active, props, targeting, runtime>>

\* ActorState::level_up(new_actor)
LevelUp ==
    \E e \in StatEntities, abilities \in LevelUpAbilities :
        /\ ents[e].actor.total_level < MaxLevel
        /\ ents' = [ents EXCEPT ![e] =
                       level_up(@, LevelUpActor(ents[e].actor, abilities), rules)]
        /\ call' = [op |-> "level_up", entity |-> e]
        /\ UNCHANGED <<rules, turn_active, props, targeting, runtime>>

\* the script method targeter:add_selectable(target), called while the script
\* builds its TargeterData, once per entity
AddSelectable ==
    \E index \in (Entities \cup {StaleHandle}) \ Range(targeter_data.selectable) :
        \E res \in {add_selectable(targeter_data, index)} :
            /\ targeter.state = "Inactive"
            /\ Len(targeter_data.selectable) < MaxTargets
            /\ targeter_data' = res.data
            /\ call' = [op |-> "add_selectable", index |-> index, ok |-> res.ok]
            /\ UNCHANGED <<rules, ents, turn_active, props, targeter, script_log, runtime>>

\* the script method targeter:add_effectable(target)
AddEffectable ==
    \E index \in (Entities \cup {StaleHandle}) \ Range(targeter_data.effectable) :
        \E res \in {add_effectable(targeter_data, index)} :
            /\ targeter.state = "Inactive"
            /\ Len(targeter_data.effectable) < MaxTargets
            /\ targeter_data' = res.data
            /\ call' = [op |-> "add_effectable", index |-> index, ok |-> res.ok]
            /\ UNCHANGED <<rules, ents, turn_active, props, targeter, script_log, runtime>>

\* the script method targeter:set_free_select_must_be_passable(val)
SetMustBePassable ==
    \E val \in ObjectSizes \cup {"missing"} :
        \E res \in {set_free_select_must_be_passable(targeter_data, val)} :
            /\ targeter.state = "Inactive"
            /\ targeter_data' = res.data
            /\ call' = [op |-> "set_free_select_must_be_passable", val |-> val,
                        ok |-> res.ok]
            /\ UNCHANGED <<rules, ents, turn_active, props, targeter, script_log, runtime>>

\* the script method targeter:set_shape_circle(radius)
SetShapeCircle ==
    \E radius \in Radii :
        \E res \in {set_shape_circle(targeter_data, radius)} :
            /\ targeter.state = "Inactive"
            /\ targeter_data' = res.data
            /\ call' = [op |-> "set_shape_circle", radius |-> radius, ok |-> res.ok]
            /\ UNCHANGED <<rules, ents, turn_active, props, targeter, script_log, runtime>>

\* the script method targeter:set_shape_line(size, origin_x, origin_y)
SetShapeLine ==
    \E size \in ObjectSizes \cup {"missing"}, origin \in LineOrigins :
        \E res \in {set_shape_line(targeter_data, size, origin[1], origin[2])} :
            /\ targeter.state = "Inactive"
            /\ targeter_data' = res.data
            /\ call' = [op |-> "set_shape_line", val |-> size, ok |-> res.ok]
            /\ UNCHANGED <<rules, ents, turn_active, props, targeter, script_log, runtime>>

\* the script method targeter:set_shape_object_size(size)
SetShapeObjectSize ==
    \E size \in ObjectSizes \cup {"missing"} :
        \E res \in {set_shape_object_size(targeter_data, size)} :
            /\ targeter.state = "Inactive"
            /\ targeter_data' = res.data
            /\ call' = [op |-> "set_shape_object_size", val |-> size, ok |-> res.ok]
            /\ UNCHANGED <<rules, ents, turn_active, props, targeter, script_log, runtime>>

\* the script method targeter:set_shape_cone(origin_x, origin_y, radius, angle)
SetShapeCone ==
    \E origin \in ConeOrigins, angle \in ConeAngles :
        \E res \in {set_shape_cone(targeter_data, origin[1], origin[2], 1, angle)} :
            /\ targeter.state = "Inactive"
            /\ targeter_data' = res.data
            /\ call' = [op |-> "set_shape_cone", ok |-> res.ok]
            /\ UNCHANGED <<rules, ents, turn_active, props, targeter, script_log, runtime>>

\* the input event delivered to Targeter::on_mouse_move, the cursor on any
\* tile of the area
OnMouseMoveTile ==
    \E point \in Tiles :
        /\ targeter.state = "Active"
        /\ targeter' = on_mouse_move(targeter, ents, point)
        /\ call' = [op |-> "on_mouse_move", point |-> point]
        /\ UNCHANGED <<rules, ents, turn_active, props, targeter_data, script_log, runtime>>

\* the tiles an active targeter with a circle accepts around its cursor
CircleAccepts ==
    /\ targeter.state = "Active"
    /\ targeter.shape.kind = "Circle"
    /\ targeter.cursor # NoPoint
    /\ call' = [op |-> "accepts", radius |-> targeter.shape.radius,
                origin |-> targeter.cursor,
                tiles |-> {tile \in Tiles :
                             Circle_accepts(targeter.shape.radius, targeter.cursor, tile)}]
    /\ UNCHANGED <<rules, ents, turn_active, props, targeting, runtime>>

\* the script method targeter:activate()
TargeterActivate ==
    /\ Len(script_log) < MaxCalls
    /\ targeter' = Targeter_activate(targeter_data)
    /\ call' = [op |-> "targeter_activate", replaced |-> targeter.state]
    /\ UNCHANGED <<rules, ents, turn_active, props, targeter_data, script_log, runtime>>

\* the input event delivered to Targeter::on_mouse_move
OnMouseMove ==
    \E point \in Points :
        /\ targeter' = on_mouse_move(targeter, ents, point)
        /\ call' = [op |-> "on_mouse_move", point |-> point]
        /\ UNCHANGED <<rules, ents, turn_active, props, targeter_data, script_log, runtime>>

\* the input event delivered to Targeter::on_activate
OnActivate ==
    \E res \in {on_activate(targeter, ents, turn_active, script_log, lua)} :
        /\ targeter' = res.targeter
        /\ ents' = res.ents
        /\ script_log' = res.log
        /\ lua' = res.lua
        /\ call' = [op |-> "on_activate"]
        /\ UNCHANGED <<rules, turn_active, props, targeter_data, cells>>

\* the input event delivered to Targeter::on_cancel
OnCancel ==
    \E res \in {on_cancel(targeter, ents, turn_active, script_log)} :
        /\ targeter' = res.targeter
        /\ ents' = res.ents
        /\ script_log' = res.log
        /\ call' = [op |-> "on_cancel"]
        /\ UNCHANGED <<rules, turn_active, props, targeter_data, runtime>>

\* ScriptState::new
NewScriptState ==
    /\ lua' = ScriptState_new
    /\ call' = [op |-> "script_state_new"]
    /\ UNCHANGED <<rules, ents, turn_active, props, targeting, cells>>

\* the outcome of an entry point put into the state
Invoked(op, parent, ability, arg, res) ==
    /\ ents' = res.ents
    /\ script_log' = res.log
    /\ lua' = res.lua
    /\ call' = [op |-> op, parent |-> parent, ability |-> ability, arg |-> arg,
                ok |-> res.ok, ran |-> res.ran, seen |-> res.seen,
                panicked |-> res.panicked]
    /\ UNCHANGED <<rules, turn_active, props, targeter_data, targeter, cells>>

\* ScriptState::ability_on_activate(parent, ability)
AbilityOnActivate ==
    \E ability \in ScriptedAbilities :
        /\ Len(script_log) < MaxInvocations
        /\ \E res \in {ability_on_activate(script_log, lua, ents, turn_active, 1, ability)} :
              Invoked("ability_on_activate", 1, ability, Unbound, res)

\* ScriptState::ability_on_target_select(parent, ability, targets, selected_point)
AbilityOnTargetSelect ==
    \E ability \in ScriptedAbilities :
        /\ Len(script_log) < MaxInvocations
        /\ \E res \in {ability_on_target_select(script_log, lua, ents, turn_active, 1,
                                                ability, <<2>>, <<1, 2>>)} :
              Invoked("ability_on_target_select", 1, ability, Unbound, res)

\* ScriptState::ability_script(parent, ability, targets, Some(arg), func), the
\* call a callback makes
AbilityScript ==
    \E ability \in ScriptedAbilities, arg \in ScriptArgs :
        /\ Len(script_log) < MaxInvocations
        /\ \E res \in {ability_script(script_log, lua, ents, turn_active, 1, ability,
                                      ScriptEntitySet_new(1, <<2>>), arg, "on_hit")} :
              Invoked("ability_script", 1, ability, arg, res)

\* the script method ability:create_callback(parent)
CreateCallback ==
    \E handle \in Entities \cup {StaleHandle} :
        \E res \in {create_callback(ScriptAbility_from(Ability("strike")), handle)} :
            /\ call' = [op |-> "create_callback", handle |-> handle, ok |-> res.ok,
                        ret |-> res.cb]
            /\ UNCHANGED <<rules, ents, turn_active, props, targeting, runtime>>

\* the script method game:is_passable(entity, x, y)
IsPassable ==
    \E handle \in Entities \cup {StaleHandle}, point \in Points :
        \E res \in {is_passable(handle, point)} :
            /\ call' = [op |-> "is_passable", handle |-> handle, ok |-> res.ok,
                        ret |-> res.ret]
            /\ UNCHANGED <<rules, ents, turn_active, props, targeting, runtime>>

\* a call of ActorState::attack on the attacker, begun: the caller holds the
\* mutable borrow of the attacker that `&mut self` takes; the target is any
\* entity, the attacker's own included
AttackCall ==
    \E attacker \in Entities, target \in Entities :
        \E inputs \in [1 .. Len(ents[attacker].stats.attacks) ->
                          AttackInput(ents[attacker], ents[target], rules, Damages)] :
            \E res \in {IF attacker = target THEN [ents |-> ents, props |-> props]
                         ELSE attack(ents, props, rules, attacker, target, inputs,
                                     RollMin, {})} :
                /\ Idle
                /\ ents[attacker].xp < MaxXp
                /\ cells' = [cells EXCEPT ![attacker] = Borrowed(@, "borrow_mut")]
                /\ call' = [op |-> "attack_run", phase |-> "running",
                            holder |-> attacker, target |-> target,
                            sites |-> attack_sites(ents, rules, attacker, target, inputs,
                                                   res.ents[target].hp),
                            site |-> 1, held |-> FALSE, notified |-> FALSE,
                            ents |-> res.ents, props |-> res.props]
                /\ UNCHANGED <<rules, ents, turn_active, props, targeting, lua>>

\* a call of the script method ability:activate(target), begun: the script
\* holds no borrow
ActivateCall ==
    \E id \in {i \in AbilityIds : Ability(i).active}, target \in Entities :
        /\ Idle
        /\ call' = [op |-> "activate_run", phase |-> "running",
                    holder |-> NoEntity, target |-> target,
                    sites |-> activate_sites(turn_active),
                    site |-> 1, held |-> FALSE, notified |-> FALSE,
                    ents |-> activate(ents, turn_active, ScriptAbility_from(Ability(id)),
                                      target),
                    props |-> props]
        /\ UNCHANGED <<rules, ents, turn_active, props, targeting, runtime>>

\* the call under way is about to take its next borrow of the target
BorrowPending ==
    /\ call.op \in RunOps
    /\ call.phase = "running"
    /\ ~call.held
    /\ call.site <= Len(call.sites)

\* the next borrow of the target is taken; a refused borrow panics and the
\* unwinding drops every borrow of the call
BorrowTake ==
    /\ BorrowPending
    /\ IF BorrowRefused(cells[call.target], call.sites[call.site].kind)
       THEN /\ call' = [call EXCEPT !.phase = "panicked"]
            /\ cells' = Unborrowed
       ELSE /\ call' = [call EXCEPT !.held = TRUE, !.notified = FALSE]
            /\ cells' = [cells EXCEPT ![call.target] =
                             Borrowed(@, call.sites[call.site].kind)]
    /\ UNCHANGED <<rules, ents, turn_active, props, targeting, lua>>

\* listeners.notify(&self) of remove_hp and remove_ap, run while the borrow of
\* the target is held
ListenersNotify ==
    /\ call.op \in RunOps
    /\ call.phase = "running"
    /\ call.held
    /\ call.sites[call.site].notify
    /\ ~call.notified
    /\ call' = [call EXCEPT !.notified = TRUE]
    /\ UNCHANGED <<rules, ents, turn_active, props, targeting, runtime>>

\* the statement ends and its borrow of the target is dropped
BorrowDrop ==
    /\ call.op \in RunOps
    /\ call.phase = "running"
    /\ call.held
    /\ call.sites[call.site].notify => call.notified
    /\ call' = [call EXCEPT !.held = FALSE, !.site = @ + 1]
    /\ cells' = [cells EXCEPT ![call.target] = Dropped(@, call.sites[call.site].kind)]
    /\ UNCHANGED <<rules, ents, turn_active, props, targeting, lua>>

\* the call returns: its changes are in place and the borrow of the caller
\* is dropped
RunReturn ==
    /\ call.op \in RunOps
    /\ call.phase = "running"
    /\ ~call.held
    /\ call.site > Len(call.sites)
    /\ ents' = call.ents
    /\ props' = call.props
    /\ cells' = Unborrowed
    /\ call' = [call EXCEPT !.phase = "returned"]
    /\ UNCHANGED <<rules, turn_active, targeting, lua>>

\* ActorState::can_activate(id), for the id of an ability or of none
CanActivateId ==
    \E e \in Entities, id \in LookupIds :
        /\ call' = [op |-> "can_activate", entity |-> e, id |-> id,
                    ret |-> can_activate(ents[e], id)]
        /\ UNCHANGED <<rules, ents, turn_active, props, targeting, runtime>>

\* ActorState::activate_ability_state(id), for the id of an ability or of none
ActivateAbilityState ==
    \E e \in Entities, id \in LookupIds :
        /\ ents' = [ents EXCEPT ![e] = activate_ability_state(@, id)]
        /\ call' = [op |-> "activate_ability_state", entity |-> e, id |-> id]
        /\ UNCHANGED <<rules, turn_active, props, targeting, runtime>>

\* ActorState::take_all(prop_index)
TakeAll ==
    \E e \in Entities, prop_index \in 1 .. Len(props) :
        \E res \in {take_all(ents[e], props, prop_index)} :
            /\ ents' = [ents EXCEPT ![e] = res.self]
            /\ props' = res.props
            /\ call' = [op |-> "take_all", entity |-> e, prop_index |-> prop_index,
                        notified |-> res.notified, panicked |-> res.panicked]
            /\ UNCHANGED <<rules, turn_active, targeting, runtime>>

\* ActorState::take(prop_index, item_index) of an item the prop holds
Take ==
    \E e \in Entities, prop_index \in 1 .. Len(props) :
        \E item_index \in 0 .. PropState_num_items(props[prop_index]) - 1 :
            \E res \in {take(ents[e], props, prop_index, item_index)} :
                /\ ents' = [ents EXCEPT ![e] = res.self]
                /\ props' = res.props
                /\ call' = [op |-> "take", entity |-> e, prop_index |-> prop_index,
                            notified |-> res.notified, panicked |-> res.panicked]
                /\ UNCHANGED <<rules, turn_active, targeting, runtime>>

\* ActorState::remove_hp(hp)
RemoveHp ==
    \E e \in Entities, hp \in HpAmounts :
        /\ ents[e].hp <= MaxHp
        /\ ents' = [ents EXCEPT ![e] = remove_hp(@, hp)]
        /\ call' = [op |-> "remove_hp", entity |-> e, hp |-> hp]
        /\ UNCHANGED <<rules, turn_active, props, targeting, runtime>>

\* Attribute::from(text)
AttributeFrom ==
    \E text \in Texts :
        /\ call' = [op |-> "from", text |-> text, ret |-> Attribute_from(text),
                    attrs |-> call.attrs]
        /\ UNCHANGED <<rules, ents, turn_active, props, targeting, runtime>>

\* Attribute::name(), on an attribute of Attribute::iter()
AttributeName ==
    \E attr \in Attributes :
        /\ call' = [op |-> "name", attr |-> attr, ret |-> Attribute_name(attr),
                    attrs |-> call.attrs]
        /\ UNCHANGED <<rules, ents, turn_active, props, targeting, runtime>>

\* AttributeList::set(attr, value)
AttributeSet ==
    \E attr \in Attributes, value \in 0 .. MaxAttr :
        /\ call' = [op |-> "set", attr |-> attr, value |-> value,
                    attrs |-> AttributeList_set(call.attrs, attr, value)]
        /\ UNCHANGED <<rules, ents, turn_active, props, targeting, runtime>>

NextRoll == AttackRoll

SpecRoll == InitRoll /\ [][NextRoll]_vars

NextAbility ==
    \/ CanActivate \/ AbilityActivate \/ RemoveAp \/ InitTurn \/ EndTurn
    \/ TurnTimerSet

SpecAbility == InitAbility /\ [][NextAbility]_vars

NextAttack == ComputeStats \/ InitActor \/ Attack

SpecAttack == InitAttack /\ [][NextAttack]_vars

NextStats == ComputeStats \/ Equip \/ Unequip \/ AddEffect \/ Update \/ LevelUp

SpecStats == InitStats /\ [][NextStats]_vars

NextTargeter ==
    \/ AddSelectable \/ AddEffectable \/ SetMustBePassable \/ TargeterActivate
    \/ OnMouseMove \/ OnActivate \/ OnCancel

SpecTargeter == InitTargeter /\ [][NextTargeter]_vars

NextBorrow ==
    \/ AttackCall \/ ActivateCall \/ BorrowTake \/ ListenersNotify \/ BorrowDrop
    \/ RunReturn

SpecBorrow == InitBorrow /\ [][NextBorrow]_vars

NextReward == Attack

SpecReward == InitReward /\ [][NextReward]_vars

NextXp == AddXp \/ LevelUp \/ Attack

SpecXp == InitXp /\ [][NextXp]_vars

NextUpdate == AddEffect \/ ActivateAbilityState \/ Update

SpecUpdate == InitStats /\ [][NextUpdate]_vars

NextTake == TakeAll \/ Take

SpecTake == InitTake /\ [][NextTake]_vars

NextDamage == AttackRolled

SpecDamage == InitReward /\ [][NextDamage]_vars

NextHp == RemoveHp \/ InitActor

SpecHp == InitHp /\ [][NextHp]_vars

NextAttr == AttributeFrom \/ AttributeName \/ AttributeSet

SpecAttr == InitAttr /\ [][NextAttr]_vars

NextLevel == CanActivateId \/ ActivateAbilityState \/ Update \/ LevelUp

SpecLevel == InitLevel /\ [][NextLevel]_vars

NextScript ==
    \/ NewScriptState \/ AbilityOnActivate \/ AbilityOnTargetSelect \/ AbilityScript
    \/ CreateCallback \/ IsPassable

SpecScript == InitScript /\ [][NextScript]_vars

NextShape ==
    \/ SetShapeCircle \/ SetShapeLine \/ SetShapeObjectSize \/ SetShapeCone
    \/ SetMustBePassable \/ TargeterActivate \/ OnMouseMoveTile \/ CircleAccepts

SpecShape == InitShape /\ [][NextShape]_vars

(***************************************************************************)
(* Properties of Rules::attack_roll (under SpecRoll)                       *)
(***************************************************************************)

Rolled == call.op = "attack_roll"

\* result = roll + accuracy - defense of the last call
Result == call.roll + call.accuracy - call.defense

\* C1: whatever the thresholds, a roll with roll + accuracy < defense is a Miss
C1_GapIsMiss ==
    (Rolled /\ call.roll + call.accuracy < call.defense) => call.ret = "Miss"

C1_Witness ==
    /\ Rolled
    /\ call.roll + call.accuracy < call.defense
    /\ call.roll >= rules.crit_percentile
    /\ call.ret = "Miss"

\* C2: when roll + accuracy >= defense the outcome is the highest tier whose
\* threshold result = roll + accuracy - defense reaches, and Miss below graze
C2_TierByThreshold ==
    (Rolled /\ call.roll + call.accuracy >= call.defense) =>
        call.ret = IF Result >= rules.crit_percentile THEN "Crit"
                   ELSE IF Result >= rules.hit_percentile THEN "Hit"
                   ELSE IF Result >= rules.graze_percentile THEN "Graze"
                   ELSE "Miss"

C2_Witness ==
    /\ Rolled
    /\ call.roll + call.accuracy >= call.defense
    /\ Result >= rules.graze_percentile
    /\ Result < rules.hit_percentile
    /\ call.ret = "Graze"

\* C3: with the thresholds fixed, over the inputs with roll + accuracy >= defense
\* a larger result never yields a lower tier than the last call's
C3_TierMonotonic ==
    (Rolled /\ call.roll + call.accuracy >= call.defense) =>
        \A roll \in Rolls, accuracy \in Accuracies, defense \in Defenses :
            (roll + accuracy >= defense) =>
                /\ (roll + accuracy - defense >= Result =>
                        Tier(attack_roll(rules, roll, accuracy, defense)) >= Tier(call.ret))
                /\ (roll + accuracy - defense <= Result =>
                        Tier(attack_roll(rules, roll, accuracy, defense)) <= Tier(call.ret))

C3_Witness ==
    /\ Rolled
    /\ call.roll + call.accuracy >= call.defense
    /\ call.ret = "Hit"
    /\ \E roll \in Rolls, accuracy \in Accuracies, defense \in Defenses :
           /\ roll + accuracy - defense > Result
           /\ attack_roll(rules, roll, accuracy, defense) = "Crit"
    /\ \E roll \in Rolls, accuracy \in Accuracies, defense \in Defenses :
           /\ roll + accuracy >= defense
           /\ roll + accuracy - defense < Result
           /\ attack_roll(rules, roll, accuracy, defense) = "Graze"

\* the rules and inputs of the end-to-end example
C4_Case ==
    /\ Rolled
    /\ rules.graze_percentile = 30
    /\ rules.hit_percentile = 60
    /\ rules.crit_percentile = 90
    /\ call.accuracy = 50
    /\ call.defense = 40
    /\ call.roll = 50

\* C4: accuracy 50 against defense 40 with thresholds 30/60/90 and a roll of
\* 50 gives result 60 and the outcome Hit
C4_ExampleIsHit == C4_Case => (Result = 60 /\ call.ret = "Hit")

C4_Witness == C4_Case /\ call.ret = "Hit"

(***************************************************************************)
(* Properties of ability activation (under SpecAbility)                    *)
(***************************************************************************)

\* C5: can_activate(id) is true iff an ability state exists for id, the AP is
\* at least its activation cost and it reports available; it changes no state
C5_CanActivateIff ==
    [][call'.op = "can_activate" =>
        LET a == ents[call'.entity]
            id == call'.id
        IN  /\ call'.ret =
                  (/\ id \in DOMAIN a.ability_states
                   /\ a.ap >= AbilityState_activate_ap(a.ability_states[id])
                   /\ AbilityState_is_available(a.ability_states[id]))
            /\ UNCHANGED <<rules, ents, turn_active, props, targeting, runtime>>]_vars

C5_Witness ==
    /\ call.op = "can_activate"
    /\ call.ret = TRUE
    /\ ents[call.entity].ap = ents[call.entity].ability_states[call.id].activate_ap
    /\ \E other \in DOMAIN ents[call.entity].ability_states :
           ents[call.entity].ability_states[other].remaining_duration > 0

\* C6: activating an ability of AP cost 3 with 2 AP fails can_activate, and the
\* activation leaves the AP and the ability states of the actor unchanged
C6_InsufficientApUnchanged ==
    [][(/\ call'.op = "activate"
        /\ Ability(call'.id).ap = 3
        /\ ents[call'.target].ap = 2)
       =>
        /\ ~can_activate(ents[call'.target], call'.id)
        /\ ents'[call'.target].ap = ents[call'.target].ap
        /\ ents'[call'.target].ability_states = ents[call'.target].ability_states]_vars

\* C7: ability.activate(target) takes the AP cost from the target's AP (an
\* unsigned counter: to 0 when the cost exceeds it) iff a turn is active, leaves
\* the AP alone otherwise, and in both cases activates the target's ability
\* state of that id, which is then on cooldown; nothing else changes
C7_ActivateSpendsInTurn ==
    [][call'.op = "activate" =>
        LET t == call'.target
            id == call'.id
            cost == Ability(id).ap
            a == ents[t]
            b == ents'[t]
        IN  /\ turn_active => b.ap = (IF cost > a.ap THEN 0 ELSE a.ap - cost)
            /\ ~turn_active => b.ap = a.ap
            /\ id \in DOMAIN a.ability_states =>
                   /\ b.ability_states =
                          [a.ability_states EXCEPT ![id] = AbilityState_activate(@)]
                   /\ ~AbilityState_is_available(b.ability_states[id])
            /\ id \notin DOMAIN a.ability_states => b.ability_states = a.ability_states
            /\ b = [a EXCEPT !.ap = b.ap, !.ability_states = b.ability_states]
            /\ \A e \in Entities \ {t} : ents'[e] = ents[e]
            /\ UNCHANGED <<rules, turn_active, props, targeting, runtime>>]_vars

C7_Witness ==
    /\ call.op = "activate"
    /\ turn_active
    /\ call.id \in DOMAIN ents[call.target].ability_states
    /\ ents[call.target].ability_states[call.id].remaining_duration > 0
    /\ Ability(call.id).ap > 0
    /\ ents[call.target].ap = rules.base_ap - Ability(call.id).ap

(***************************************************************************)
(* Properties of attack and death handling (under SpecAttack)              *)
(***************************************************************************)

\* C8: attack() on a target whose HP is zero or below returns the "Miss"
\* default, makes no attack roll and changes neither HP, XP nor props
C8_DeadTargetNoOp ==
    [][(call'.op = "attack" /\ ents[call'.target].hp <= 0) =>
        /\ call'.ret = [damage_str |-> <<MissEntry>>, color |-> "GRAY"]
        /\ call'.events = <<>>
        /\ ents' = ents
        /\ props' = props]_vars

C8_Witness ==
    /\ call.op = "attack"
    /\ call.events = <<>>
    /\ call.ret = [damage_str |-> <<MissEntry>>, color |-> "GRAY"]
    /\ ents[call.target].hp <= 0
    /\ ents[call.target].stats.max_hp > 0
    /\ Len(ents[call.attacker].stats.attacks) > 1
    /\ ents[call.attacker].xp > 0

IsDeathEvent(x) == x \in {"add_xp", "loot_roll", "add_prop"}

\* the death handling steps among the events of a call, in their order
DeathEvents(ev) == SelectSeq(ev, IsDeathEvent)

InSeq(x, s) == \E i \in 1 .. Len(s) : s[i] = x

\* C9: when an attack leaves the target at zero HP or below, the reward XP is
\* added first, then the loot roll is made, and a prop with the rolled items
\* is added at the target's location only if the roll yielded an item; a
\* target still above zero HP triggers none of these
C9_DeathHandlingOrder ==
    [][(call'.op = "attack" /\ ents[call'.target].hp > 0) =>
        LET t == call'.target
            a == call'.attacker
            ev == call'.events
            death == DeathEvents(ev)
            rw == ents[t].actor.reward
        IN  /\ ents'[t].hp > 0 =>
                   /\ death = <<>>
                   /\ ents'[a].xp = ents[a].xp
                   /\ props' = props
            /\ ents'[t].hp <= 0 =>
                   /\ death \in { <<>>, <<"add_xp">>, <<"add_xp", "loot_roll">>,
                                  <<"add_xp", "loot_roll", "add_prop">> }
                   /\ SubSeq(ev, Len(ev) - Len(death) + 1, Len(ev)) = death
                   /\ rw.some => (death # <<>> /\ ents'[a].xp = ents[a].xp + rw.xp)
                   /\ ~rw.some => (death = <<>> /\ ents'[a].xp = ents[a].xp)
                   /\ InSeq("loot_roll", death) <=>
                          (rw.some /\ rw.loot_some /\ Module_prop_some(rules.loot_drop_prop))
                   /\ InSeq("add_prop", death) <=>
                          (InSeq("loot_roll", death) /\ call'.items # {})
                   /\ InSeq("add_prop", death) =>
                          props' = Append(props, [prop |-> rules.loot_drop_prop,
                                                  location |-> ents[t].location,
                                                  items |-> call'.items])
                   /\ ~InSeq("add_prop", death) => props' = props]_vars

C9_Witness ==
    /\ call.op = "attack"
    /\ ents[call.target].hp <= 0
    /\ DeathEvents(call.events) = <<"add_xp", "loot_roll", "add_prop">>
    /\ Len(call.events) > 3
    /\ ents[call.attacker].xp = 1
    /\ Len(props) = 1

\* an attack() call that brings a live target with a loot table and a 100%
\* loot chance to zero HP
KillsWithCertainLoot ==
    /\ call'.op = "attack"
    /\ ents[call'.target].hp > 0
    /\ ents'[call'.target].hp <= 0
    /\ ents[call'.target].actor.reward.some
    /\ ents[call'.target].actor.reward.loot_some
    /\ ents[call'.target].actor.reward.loot_chance = 100

\* exactly one prop is added, with the rolled items, at the target's location
OnePropSpawned ==
    /\ Len(props') = Len(props) + 1
    /\ SubSeq(props', 1, Len(props)) = props
    /\ call'.items # {}
    /\ props'[Len(props')].items = call'.items
    /\ props'[Len(props')].location = ents[call'.target].location

\* C10 as stated: a target with a loot table and a 100% loot chance that is
\* reduced to 0 HP spawns exactly one prop with the rolled items at its location
C10_ExactlyOneProp ==
    [][KillsWithCertainLoot => OnePropSpawned]_vars

\* C10 as amended: the same, provided the module defines the loot drop prop
C10_ExactlyOnePropIfDropPropDefined ==
    [][(KillsWithCertainLoot /\ Module_prop_some(rules.loot_drop_prop))
          => OnePropSpawned]_vars

C10_Witness ==
    /\ call.op = "attack"
    /\ Len(call.ret.damage_str) = 2
    /\ \A i \in 1 .. 2 : call.ret.damage_str[i].total.low > 0
    /\ ents[call.target].hp = 0
    /\ ents[call.target].actor.reward.loot_chance = 100
    /\ Module_prop_some(rules.loot_drop_prop)
    /\ Len(props) = 1
    /\ props[1].items = call.items
    /\ props[1].location = ents[call.target].location
    /\ call.items # {}

(***************************************************************************)
(* Properties of the stat snapshot (under SpecStats)                       *)
(***************************************************************************)

\* the stats compute_stats yields from the present sources of an actor state
Recomputed(a) == compute_stats(a, rules).stats

\* C11: compute_stats is idempotent: whatever the stored snapshot is, a second
\* compute_stats on unchanged sources leaves what the first one produced, and
\* right after a compute_stats another one changes nothing
C11_ComputeStatsIdempotent ==
    /\ \A e \in StatEntities :
          \E once \in {compute_stats(ents[e], rules)} : compute_stats(once, rules) = once
    /\ call.op = "compute_stats" =>
          compute_stats(ents[call.entity], rules) = ents[call.entity]

C11_Witness ==
    /\ call.op = "compute_stats"
    /\ ents[call.entity].equipped # <<>>
    /\ ents[call.entity].effects # <<>>
    /\ ents[call.entity].stats.accuracy > 50
    /\ ents[call.entity].stats.max_hp > 0

\* the orders in which the four bonus sources can be added
SourceOrders ==
    {o \in [1 .. 4 -> Range(SourceOrder)] : \A i, j \in 1 .. 4 : i # j => o[i] # o[j]}

\* C12: adding the four bonus sources (race, class levels, equipped items,
\* effects) in any order yields the stat snapshot compute_stats yields
C12_SourceOrderIrrelevant ==
    \A e \in StatEntities :
        \E stats \in {Recomputed(ents[e])} :
            \A o \in SourceOrders : compute_stats_ordered(ents[e], rules, o).stats = stats

C12_Witness ==
    /\ \E e \in StatEntities :
          /\ Len(ents[e].equipped) > 1
          /\ Len(ents[e].effects) > 1
          /\ ents[e].actor.total_level > 1
          /\ ents[e].stats = Recomputed(ents[e])
          /\ ents[e].stats.max_hp > ents[e].actor.race.base_stats.max_hp

\* the operations that recompute the stats whenever they are called
RecomputingOps == {"equip", "unequip", "add_effect", "level_up"}

\* C13: after equip, unequip, add_effect and level_up, and after an update
\* that removed an effect, the stored stats are the stats computed from the
\* equipment, effects and levels the operation left
C13_SourceChangeRecomputes ==
    [][ /\ call'.op \in RecomputingOps =>
              ents'[call'.entity].stats = compute_stats(ents'[call'.entity], rules').stats
        /\ (call'.op = "update"
              /\ Len(ents'[call'.entity].effects) # Len(ents[call'.entity].effects)) =>
              ents'[call'.entity].stats = compute_stats(ents'[call'.entity], rules').stats
      ]_vars

C13_Witness ==
    /\ call.op = "update"
    /\ call.removed = 2
    /\ ents[call.entity].effects = <<>>
    /\ ents[call.entity].equipped # <<>>
    /\ ents[call.entity].stats = Recomputed(ents[call.entity])
    /\ ents[call.entity].stats.attacks # <<"fist">>

\* the number of equipped items that contribute a weapon attack
WeaponAttacks(a) ==
    Cardinality({i \in 1 .. Len(a.equipped) :
                    a.equipped[i].equippable /\ a.equipped[i].bonuses.attack # NoAttack})

\* C14: after a stat recompute the damage multiplier is the dual-wield
\* multiplier exactly when more than one equipped item contributes a weapon
\* attack and 1.0 (100 percent) otherwise; without any weapon attack the base
\* attack of the race, if it has one, is the only attack
C14_DualWieldMultiplier ==
    call.op \in RecomputingOps \cup {"compute_stats"} =>
        LET a == ents[call.entity] IN
        /\ a.stats.damage_multiplier =
              IF WeaponAttacks(a) > 1 THEN rules.dual_wield_damage_multiplier ELSE 100
        /\ WeaponAttacks(a) = 0 =>
              a.stats.attacks = IF a.actor.race.base_stats.attack # NoAttack
                                THEN <<a.actor.race.base_stats.attack>> ELSE <<>>
        /\ WeaponAttacks(a) > 0 => Len(a.stats.attacks) = WeaponAttacks(a)

C14_Witness ==
    /\ call.op = "equip"
    /\ call.ret
    /\ WeaponAttacks(ents[call.entity]) = 2
    /\ ents[call.entity].stats.damage_multiplier = rules.dual_wield_damage_multiplier
    /\ ents[call.entity].stats.attacks = <<"sword", "dagger">>

\* the effects of an actor state after a tick of millis, expired ones included
Ticked(a, millis) == [i \in 1 .. Len(a.effects) |-> Effect_update(a.effects[i], millis)]

\* C15: after update(millis_elapsed) the effect list is the ticked list without
\* the effects whose remaining duration reached zero, in the same order (no
\* expired effect is left, no unexpired effect is lost), and if an effect was
\* removed the stored stats are the recomputed stats
C15_UpdateDropsExpired ==
    [][ call'.op = "update" =>
          LET e == call'.entity
              ticked == Ticked(ents[e], call'.millis)
          IN  /\ ents'[e].effects = SelectSeq(ticked, LAMBDA x : x.remaining > 0)
              /\ \A i \in 1 .. Len(ents'[e].effects) : ents'[e].effects[i].remaining > 0
              /\ Len(ents'[e].effects) < Len(ents[e].effects) =>
                    ents'[e].stats = compute_stats(ents'[e], rules').stats
      ]_vars

C15_Witness ==
    /\ call.op = "update"
    /\ call.removed = 1
    /\ Len(ents[call.entity].effects) = 1
    /\ ents[call.entity].effects[1].remaining = 1
    /\ ents[call.entity].stats.accuracy = 55

(***************************************************************************)
(* Properties of the Targeter (under SpecTargeter)                         *)
(***************************************************************************)

TerminalStates == {"Committed", "Cancelled"}

\* C16: the targeter goes Inactive -> Active -> {Committed, Cancelled}: it
\* becomes Active by being installed, a mouse move leaves an Active targeter
\* Active, it leaves Active only by an on_activate to Committed or by an
\* on_cancel to Cancelled, and no event changes a Committed or Cancelled one
C16_TargeterStateMachine ==
    [][ /\ call'.op = "targeter_activate" => targeter'.state = "Active"
        /\ call'.op # "targeter_activate" =>
              /\ targeter.state = "Inactive" => targeter' = targeter
              /\ (targeter.state = "Active" /\ call'.op = "on_mouse_move") =>
                    targeter'.state = "Active"
              /\ (targeter.state = "Active" /\ targeter'.state # "Active") =>
                    \/ call'.op = "on_activate" /\ targeter'.state = "Committed"
                    \/ call'.op = "on_cancel" /\ targeter'.state = "Cancelled"
              /\ targeter.state \in TerminalStates => targeter' = targeter
      ]_vars

C16_Witness ==
    /\ call.op = "on_activate"
    /\ targeter.state = "Cancelled"
    /\ SelectionValid(targeter)
    /\ targeter.cursor = <<0, 0>>

\* C17: on_activate commits an Active targeter only if the current selection
\* is a selectable entity and, with free_select_must_be_passable set, the
\* tile under the cursor is passable; otherwise the targeter, the entities
\* and the script log stay as they are
C17_CommitOnlyIfValid ==
    [][ call'.op = "on_activate" =>
          LET valid == /\ targeter.state = "Active"
                       /\ targeter.cur_target \in Range(targeter.selectable)
                       /\ targeter.free_select_must_be_passable # NoSize =>
                              targeter.cursor \in PassableTiles
          IN  /\ targeter'.state = "Committed" /\ targeter.state # "Committed" => valid
              /\ ~valid => /\ targeter' = targeter
                            /\ ents' = ents
                            /\ script_log' = script_log
      ]_vars

C17_Witness ==
    /\ call.op = "on_activate"
    /\ targeter.state = "Active"
    /\ targeter.cur_target = 2
    /\ targeter.free_select_must_be_passable # NoSize
    /\ targeter.cursor \notin PassableTiles
    /\ script_log = <<>>

\* C18: on_cancel moves an Active targeter to Cancelled whatever is selected
\* and invokes no script; no step taken with a Cancelled targeter invokes a
\* script entry point
C18_CancelNeverCallsScript ==
    [][ /\ (call'.op = "on_cancel" /\ targeter.state = "Active") =>
              /\ targeter'.state = "Cancelled"
              /\ script_log' = script_log
        /\ targeter.state = "Cancelled" => script_log' = script_log
      ]_vars

C18_Witness ==
    /\ call.op = "on_cancel"
    /\ targeter.state = "Cancelled"
    /\ SelectionValid(targeter)
    /\ targeter.free_select_must_be_passable # NoSize
    /\ script_log = <<>>

\* C19: on_cancel changes nothing but the state of the targeter: selectable
\* and effectable of the targeter and of the TargeterData, and every entity
\* (HP, AP, effects, ability states and the stored stats, which a recompute
\* would alter) are as before
C19_CancelChangesNothingElse ==
    [][ call'.op = "on_cancel" =>
          /\ ents' = ents
          /\ targeter_data' = targeter_data
          /\ targeter' = [targeter EXCEPT !.state = targeter'.state]
          /\ UNCHANGED <<rules, turn_active, props, script_log, runtime>>
      ]_vars

C19_Witness ==
    /\ call.op = "on_cancel"
    /\ targeter.state = "Cancelled"
    /\ Len(targeter.selectable) = 2
    /\ Len(targeter.effectable) = 2
    /\ ents[targeter.parent].stats # Recomputed(ents[targeter.parent])
    /\ ents[targeter.parent].ap = rules.base_ap

\* the bindings on_target_select is invoked with when the targeter t commits
CommitInvocation(t) ==
    [func |-> "on_target_select",
     parent |-> t.parent,
     ability |-> ScriptAbility_from(Ability(t.ability_id)),
     targets |-> [parent |-> t.parent, indices |-> t.effectable, point |-> t.cursor]]

\* C20: a script entry point is invoked only by the on_activate that commits
\* an Active targeter, exactly once, and it is on_target_select with the
\* parent, the ability and the targets made of the effectable entities of
\* the targeter and the committed point
C20_TargetSelectOnCommit ==
    [][ /\ script_log' # script_log =>
              /\ call'.op = "on_activate"
              /\ targeter.state = "Active"
              /\ targeter'.state = "Committed"
              /\ script_log' = Append(script_log, CommitInvocation(targeter))
        /\ (targeter.state = "Active" /\ targeter'.state = "Committed") =>
              Len(script_log') = Len(script_log) + 1
      ]_vars

C20_Witness ==
    /\ call.op = "on_activate"
    /\ targeter.state = "Committed"
    /\ Len(script_log) = 1
    /\ script_log[1] = CommitInvocation(targeter)
    /\ script_log[1].targets.indices = <<2, 1>>
    /\ script_log[1].targets.point = <<1, 2>>
    /\ targeter.selectable = <<2>>

(***************************************************************************)
(* Shapes of a targeter                                                    *)
(***************************************************************************)

\* the calls that name an object size
SizeCalls == {"set_shape_line", "set_shape_object_size", "set_free_select_must_be_passable"}

\* the object sizes a TargeterData or a targeter names
SizesNamed(t) ==
    (IF t.shape.kind \in {"Line", "ObjectSize"} THEN {t.shape.size} ELSE {})
        \cup (IF t.free_select_must_be_passable # NoSize
              THEN {t.free_select_must_be_passable} ELSE {})

\* C21: set_shape_line, set_shape_object_size and
\* set_free_select_must_be_passable with an object size the module does not
\* define return an error at that call and leave the TargeterData, its shape
\* and free_select_must_be_passable included, as it was; so a targeter that
\* is activated names only sizes the module defines
C21_UnknownSizeRejected ==
    [][ /\ (call'.op \in SizeCalls /\ ~Module_object_size_some(call'.val)) =>
              /\ ~call'.ok
              /\ targeter_data' = targeter_data
              /\ targeter' = targeter
        /\ targeter'.state = "Active" =>
              \A size \in SizesNamed(targeter') : Module_object_size_some(size)
      ]_vars

C21_Witness ==
    /\ call.op = "set_shape_line"
    /\ call.val = "missing"
    /\ ~call.ok
    /\ targeter_data.shape = [kind |-> "Circle", radius |-> 2]
    /\ targeter_data.free_select_must_be_passable = "1by1"

\* C22: a targeter with a circle of radius r accepts exactly the tiles whose
\* Euclidean distance from the origin is at most r: only the origin for
\* r = 0, and the tiles at distance exactly r are accepted
C22_CircleContainment ==
    call.op = "accepts" =>
        /\ \A tile \in Tiles :
              tile \in call.tiles <=> Dist2(tile, call.origin) <= call.radius * call.radius
        /\ call.radius = 0 => call.tiles = {call.origin}
        /\ \A tile \in Tiles :
              (tile[2] = call.origin[2] /\ tile[1] = call.origin[1] + call.radius)
                  => tile \in call.tiles
        /\ \A tile \in Tiles :
              (tile[2] = call.origin[2] /\ tile[1] = call.origin[1] + call.radius + 1)
                  => tile \notin call.tiles

C22_Witness ==
    /\ call.op = "accepts"
    /\ call.radius = MaxRadius
    /\ call.origin = <<0, 0>>
    /\ <<MaxRadius, 0>> \in call.tiles
    /\ <<MaxRadius, 1>> \notin call.tiles
    /\ <<MaxRadius - 1, MaxRadius - 1>> \in call.tiles

(***************************************************************************)
(* Script entry points                                                     *)
(***************************************************************************)

\* the entry points of the ScriptState
EntryPoints == {"ability_on_activate", "ability_on_target_select", "ability_script"}

\* C23: an entry point invoked for an ability without an active payload
\* returns an error, runs no script, rebinds no global and changes no
\* entity
C23_NoScriptNoEffect ==
    [][ (call'.op \in EntryPoints /\ ~call'.ability.active) =>
            /\ ~call'.ok
            /\ ~call'.ran
            /\ script_log' = script_log
            /\ lua' = lua
            /\ ents' = ents
      ]_vars

C23_Witness ==
    /\ call.op = "ability_script"
    /\ call.ability = Ability("tough")
    /\ call.arg = Bound("graze")
    /\ ~call.ok
    /\ Len(script_log) = 1
    /\ lua.ability = Bound(ScriptAbility_from(Ability("strike")))
    /\ lua.targets = Bound(ScriptEntitySet_new(1, <<>>))
    /\ lua.arg = Unbound

\* C24: an entry point that returns an error leaves every entity as it was
\* before the invocation
C24_FailureLeavesNoMutation ==
    [][ (call'.op \in EntryPoints /\ ~call'.ok) => ents' = ents ]_vars

\* the globals an invocation binds from its own arguments
OwnBindings(c) ==
    [parent |-> c.seen.parent, ability |-> c.seen.ability, targets |-> c.seen.targets,
     arg |-> c.arg, user |-> Unbound]

\* C25: the globals a script function is called with are the ones bound from
\* the arguments of its own invocation: no extra argument and no global of
\* an earlier invocation is among them
C25_OwnContext ==
    [][ (call'.op \in EntryPoints /\ call'.ran) => call'.seen = OwnBindings(call') ]_vars

\* C26: a host method given the handle of an entity that is gone returns
\* without an error and changes nothing, and a script that calls
\* ability:activate on such a handle runs on to its end
C26_StaleHandleNoOp ==
    [][ /\ (call'.op \in {"create_callback", "is_passable"}
                /\ call'.handle = StaleHandle) => call'.ok
        /\ (call'.op \in EntryPoints /\ call'.ran
                /\ call'.ability.script.steps = <<"activate_stale", "define">>) =>
              /\ call'.ok
              /\ ents' = ents
              /\ lua'.user # Unbound
      ]_vars

(***************************************************************************)
(* Borrows of an entity                                                    *)
(***************************************************************************)

\* C27: when attack or ability:activate is about to borrow an entity, no
\* mutable borrow of that entity is held: the earlier borrow has been
\* released, also when the target of an attack is the attacker
C27_BorrowsDisjoint ==
    BorrowPending => ~cells[call.target].mut

(***************************************************************************)
(* Ability states and level_up                                             *)
(***************************************************************************)

\* the abilities of an actor record that have an active payload
Activatable(actor) == {id \in actor.abilities : Ability(id).active}

\* C28: level_up leaves the ability state of every activatable ability the
\* actor had before and still has after as it was, cooldown included
C28_LevelUpKeepsCooldown ==
    [][ call'.op = "level_up" =>
            \A id \in Activatable(ents[call'.entity].actor)
                          \cap Activatable(ents'[call'.entity].actor) :
                ents'[call'.entity].ability_states[id]
                    = ents[call'.entity].ability_states[id]
      ]_vars

\* C29: after level_up the ability-state map has an entry for exactly the
\* activatable abilities of the new actor record
C29_LevelUpRebuildsStates ==
    [][ call'.op = "level_up" =>
            DOMAIN ents'[call'.entity].ability_states
                = Activatable(ents'[call'.entity].actor)
      ]_vars

\* the ids of the abilities of the module with an active payload
ActiveIds == {id \in AbilityIds : Ability(id).active}

\* C30: every ability state belongs to an ability with an active payload;
\* for the id of a passive ability or of no ability can_activate is false
\* and activate_ability_state changes nothing
C30_StatesOnlyForActive ==
    [][ /\ \A e \in Entities :
              /\ DOMAIN ents[e].ability_states \subseteq ActiveIds
              /\ DOMAIN ents'[e].ability_states \subseteq ActiveIds
        /\ (call'.op = "can_activate" /\ call'.id \notin ActiveIds) => ~call'.ret
        /\ (call'.op = "activate_ability_state" /\ call'.id \notin ActiveIds) =>
              ents' = ents
      ]_vars

C30_Witness ==
    /\ call.op = "activate_ability_state"
    /\ call.entity = 1
    /\ call.id = "tough"
    /\ "tough" \in ents[1].actor.abilities
    /\ ents[1].actor.total_level = 2
    /\ "tough" \notin DOMAIN ents[1].ability_states
    /\ UnknownId \notin DOMAIN ents[1].ability_states

(***************************************************************************)
(* Attribute names                                                         *)
(***************************************************************************)

\* C31: Attribute::from gives back the attribute of every name, the six
\* names are pairwise distinct, and Attribute::from is None for every text
\* that is no name
C31_AttributeNamesInvertible ==
    /\ call.op = "name" => Attribute_from(call.ret) = <<call.attr>>
    /\ call.op = "from" =>
          /\ call.ret # <<>> <=> \E a \in Attributes : call.text = Attribute_name(a)
          /\ call.ret # <<>> => Attribute_name(call.ret[1]) = call.text
    /\ \A a, b \in Attributes : a # b => Attribute_name(a) # Attribute_name(b)
    /\ Cardinality(Attributes) = 6

C31_Witness ==
    /\ call.op = "from"
    /\ call.text = "Intellect"
    /\ call.ret = <<Intellect>>
    /\ call.attrs[Wisdom] = MaxAttr

C31_WitnessNone ==
    /\ call.op = "from"
    /\ call.text = "int"
    /\ call.ret = <<>>

(***************************************************************************)
(* Activation of a targeter                                                *)
(***************************************************************************)

\* C32: targeter.activate installs an active targeter made from the current
\* TargeterData, with its ability id, parent, selectable and effectable
\* entities, shape and passability flag, in the place of whatever targeter
\* was installed before, and leaves the TargeterData, the entities and the
\* script log as they were
C32_ActivateInstallsTargeter ==
    [][ call'.op = "targeter_activate" =>
            /\ targeter'.state = "Active"
            /\ targeter'.ability_id = targeter_data.ability_id
            /\ targeter'.parent = targeter_data.parent
            /\ targeter'.selectable = targeter_data.selectable
            /\ targeter'.effectable = targeter_data.effectable
            /\ targeter'.shape = targeter_data.shape
            /\ targeter'.free_select_must_be_passable
                  = targeter_data.free_select_must_be_passable
            /\ targeter'.cursor = NoPoint
            /\ targeter'.cur_target = NoEntity
            /\ targeter_data' = targeter_data
            /\ ents' = ents
            /\ script_log' = script_log
      ]_vars

C32_Witness ==
    /\ call.op = "targeter_activate"
    /\ call.replaced = "Cancelled"
    /\ targeter.state = "Active"
    /\ targeter.selectable = <<2>>
    /\ targeter.effectable = <<2, 1>>
    /\ targeter.free_select_must_be_passable = "1by1"
    /\ targeter_data.effectable = <<2, 1>>

(***************************************************************************)
(* Bounds of AP                                                            *)
(***************************************************************************)

\* the AP of every entity is between 0 and the base AP
ApInBounds(es) == \A e \in Entities : 0 <= es[e].ap /\ es[e].ap <= rules.base_ap

\* C33: the AP of an actor stays between 0 and base_ap; init_turn sets it to
\* base_ap, end_turn to 0, and remove_ap(n), called directly or by
\* ability.activate in a turn, to ap - n when n <= ap and to 0 otherwise
C33_ApBounds ==
    [][ /\ ApInBounds(ents)
        /\ ApInBounds(ents')
        /\ call'.op = "init_turn" => ents'[call'.entity].ap = rules.base_ap
        /\ call'.op = "end_turn" => ents'[call'.entity].ap = 0
        /\ call'.op = "remove_ap" =>
              ents'[call'.entity].ap =
                  IF call'.ap <= ents[call'.entity].ap
                  THEN ents[call'.entity].ap - call'.ap ELSE 0
        /\ (call'.op = "activate" /\ turn_active) =>
              ents'[call'.target].ap =
                  IF Ability(call'.id).ap <= ents[call'.target].ap
                  THEN ents[call'.target].ap - Ability(call'.id).ap ELSE 0
      ]_vars

C33_Witness ==
    /\ call.op = "remove_ap"
    /\ call.entity = 1
    /\ call.ap = MaxAp + 1
    /\ ents[1].ap = 0
    /\ ents[2].ap = rules.base_ap
    /\ rules.base_ap = 2

(***************************************************************************)
(* remove_hp                                                               *)
(***************************************************************************)

\* C34: remove_hp(n) never raises the hit points and never leaves them
\* negative: an amount of 2^31 or more is above every hp, so that the new
\* hp is 0, and a smaller amount n gives max(0, hp - n)
C34_RemoveHpSaturates ==
    [][ call'.op = "remove_hp" =>
            LET before == ents[call'.entity].hp
                after == ents'[call'.entity].hp
            IN  /\ after <= before
                /\ after >= 0
                /\ call'.hp.high => after = 0
                /\ ~call'.hp.high =>
                      after = IF call'.hp.low > before THEN 0 ELSE before - call'.hp.low
      ]_vars

(***************************************************************************)
(* The death reward                                                        *)
(***************************************************************************)

\* the XP and the props the attacks on the entities so far account for: the
\* reward of every entity that is dead, once
RewardsDue(es) ==
    [xp |-> SumSeq([e \in 1 .. Cardinality(Entities) |->
                      IF es[e].hp <= 0 /\ es[e].actor.reward.some
                      THEN es[e].actor.reward.xp ELSE 0]),
     props |-> SumSeq([e \in 1 .. Cardinality(Entities) |->
                      IF es[e].hp <= 0 /\ es[e].actor.reward.some
                         /\ es[e].actor.reward.loot_some THEN 1 ELSE 0])]

\* the XP of all entities
XpGranted(es) == SumSeq([e \in 1 .. Cardinality(Entities) |-> es[e].xp])

\* C35: over a sequence of attack() calls the reward of a target is granted
\* at most once: XP is added and a prop is spawned only by the call that
\* brings the target from above zero HP to zero, so that the XP granted and
\* the props never exceed one reward for each dead entity
C35_RewardAtMostOnce ==
    [][ call'.op = "attack" =>
            /\ (ents'[call'.attacker].xp # ents[call'.attacker].xp \/ props' # props) =>
                  /\ ents[call'.target].hp > 0
                  /\ ents'[call'.target].hp <= 0
                  /\ ents'[call'.attacker].xp
                        = ents[call'.attacker].xp + ents[call'.target].actor.reward.xp
                  /\ Len(props') <= Len(props) + 1
            /\ XpGranted(ents') = RewardsDue(ents').xp
            /\ Len(props') <= RewardsDue(ents').props
      ]_vars

C35_Witness ==
    /\ call.op = "attack"
    /\ call.events = <<>>
    /\ ents[call.target].hp <= 0
    /\ ents[call.target].actor.reward.loot_some
    /\ ents[call.attacker].xp = 1
    /\ Len(props) = 1

(***************************************************************************)
(* The hit points an attack removes                                        *)
(***************************************************************************)

\* max(0, hp - n) for an amount n of type u32
SaturatingSub(hp, n) == IF n.high \/ n.low > hp THEN 0 ELSE hp - n.low

RECURSIVE HpAfter(_, _, _)
\* the hit points left of hp after the entries i .. of damage_str, a Miss
\* removing nothing and every other entry its total
HpAfter(hp, damage_str, i) ==
    IF i > Len(damage_str) THEN hp
    ELSE HpAfter(IF damage_str[i].kind = "Miss" THEN hp
                 ELSE SaturatingSub(hp, damage_str[i].total), damage_str, i + 1)

\* C36: within one attack() a Miss removes no hit points, every other attack
\* removes the sum of its rolled damage amounts (down to zero), and the hit
\* points of the target after the call are never higher than before it
C36_AttackRemovesRolledDamage ==
    [][ call'.op = "attack" =>
            /\ ents'[call'.target].hp
                  = HpAfter(ents[call'.target].hp, call'.ret.damage_str, 1)
            /\ ents'[call'.target].hp <= ents[call'.target].hp
      ]_vars

(***************************************************************************)
(* XP and has_level_up                                                     *)
(***************************************************************************)

\* has_level_up of actor a says whether its XP reach the XP required for the
\* level after its total level
LevelUpFlagCurrent(a, r) ==
    a.has_level_up = (get_xp_for_next_level(r, a.actor.total_level) <= a.xp)

\* the entities whose XP or actor record the call changes
XpCallSubjects(c) ==
    CASE c.op \in {"add_xp", "level_up"} -> {c.entity}
      [] c.op = "attack" /\ "add_xp" \in Range(c.events) -> {c.attacker}
      [] OTHER -> {}

\* C37: after add_xp, level_up and every XP award of check_death,
\* has_level_up equals (XP required for the level after the total level <=
\* XP); the XP of no actor ever decrease
C37_LevelUpFlagFollowsXp ==
    [][ /\ \A e \in XpCallSubjects(call') : LevelUpFlagCurrent(ents'[e], rules')
        /\ \A e \in Entities : ents'[e].xp >= ents[e].xp
      ]_vars

\* a level_up after which the XP that sufficed for the last level no longer do
C37_Witness ==
    /\ call.op = "level_up"
    /\ ents[call.entity].xp >= get_xp_for_next_level(rules, ents[call.entity].actor.total_level - 1)
    /\ ents[call.entity].xp > 0
    /\ ~ents[call.entity].has_level_up

\* an attack whose XP award makes a level-up available
C37_WitnessAward ==
    /\ call.op = "attack"
    /\ "add_xp" \in Range(call.events)
    /\ ents[call.attacker].has_level_up

(***************************************************************************)
(* An update in which no effect expires                                    *)
(***************************************************************************)

\* no effect of actor a reaches the end of its duration within millis
NoEffectExpires(a, millis) ==
    \A i \in 1 .. Len(a.effects) : ~Effect_is_removal(Effect_update(a.effects[i], millis))

\* C38: an update(millis_elapsed) in which no effect expires recomputes no
\* stats and notifies no listener: it advances the durations of the effects
\* and the cooldowns of the ability states and leaves the stats, HP, AP, XP
\* and the membership of the effect list as they were
C38_UpdateWithoutExpiryIsQuiet ==
    [][ (call'.op = "update" /\ NoEffectExpires(ents[call'.entity], call'.millis)) =>
          LET e == call'.entity
              millis == call'.millis
          IN  /\ ~call'.notified
              /\ ents'[e].stats = ents[e].stats
              /\ ents'[e].has_level_up = ents[e].has_level_up
              /\ ents'[e].hp = ents[e].hp
              /\ ents'[e].ap = ents[e].ap
              /\ ents'[e].xp = ents[e].xp
              /\ ents'[e].actor = ents[e].actor
              /\ ents'[e].equipped = ents[e].equipped
              /\ ents'[e].effects =
                    [i \in 1 .. Len(ents[e].effects) |->
                        Effect_update(ents[e].effects[i], millis)]
              /\ ents'[e].ability_states =
                    [id \in DOMAIN ents[e].ability_states |->
                        AbilityState_update(ents[e].ability_states[id], millis)]
              /\ \A o \in Entities \ {e} : ents'[o] = ents[o]
      ]_vars

\* an update that advanced an effect and a cooldown and removed nothing
C38_Witness ==
    /\ call.op = "update"
    /\ call.millis = 1
    /\ call.removed = 0
    /\ Len(ents[call.entity].effects) = 1
    /\ ents[call.entity].effects[1].remaining = 1
    /\ ents[call.entity].ability_states["strike"].remaining_duration = 1
    /\ ents[call.entity].stats = compute_stats(ents[call.entity], rules).stats

\* an update of an actor whose stats were never computed, and still are not
C38_WitnessStale ==
    /\ call.op = "update"
    /\ call.removed = 0
    /\ ents[call.entity].stats # compute_stats(ents[call.entity], rules).stats

(***************************************************************************)
(* The assertion of ScriptAbility::from                                    *)
(***************************************************************************)

\* C39: the assertion of ScriptAbility::from fails on no path through
\* ability_on_activate, ability_on_target_select and ability_script: an
\* ability without an active payload is rejected by get_script, with an
\* error, before ScriptAbility::from is reached
C39_FromAssertionHolds ==
    call.op \in EntryPoints =>
        /\ ~call.panicked
        /\ ~call.ability.active => (~call.ok /\ ~call.ran)

\* the passive ability was handed to an entry point, which returned an error
C39_Witness ==
    /\ call.op = "ability_on_target_select"
    /\ ~call.ability.active
    /\ ~call.ok
    /\ ~call.panicked
    /\ Len(script_log) = 1

(***************************************************************************)
(* take_all                                                                *)
(***************************************************************************)

\* the number of times item state it occurs in the list
Occurrences(items, it) == Cardinality({i \in 1 .. Len(items) : items[i] = it})

\* C40: after take_all(prop) the prop holds no item and the inventory of the
\* actor has gained exactly the items the prop held, none lost and none
\* duplicated; the loop ends without an index below zero for every number of
\* items; the listeners are notified iff the prop held an item
C40_TakeAllMovesEveryItem ==
    [][ call'.op = "take_all" =>
          LET e == call'.entity
              held == props[call'.prop_index].items
          IN  /\ ~call'.panicked
              /\ props'[call'.prop_index].items = <<>>
              /\ Len(ents'[e].inventory) = Len(ents[e].inventory) + Len(held)
              /\ \A it \in Range(held) \cup Range(ents'[e].inventory) :
                    Occurrences(ents'[e].inventory, it)
                      = Occurrences(ents[e].inventory, it) + Occurrences(held, it)
              /\ call'.notified = (Len(held) >= 1)
              /\ \A o \in Entities \ {e} : ents'[o] = ents[o]
              /\ \A q \in (1 .. Len(props)) \ {call'.prop_index} : props'[q] = props[q]
              /\ Len(props') = Len(props)
      ]_vars

\* a take_all that moved three items, two of them of one kind
C40_Witness ==
    /\ call.op = "take_all"
    /\ call.notified
    /\ call.prop_index = 1
    /\ props[1].items = <<>>
    /\ ents[call.entity].inventory = <<"potion", "sword", "sword">>

\* a take_all on a prop without items
C40_WitnessEmpty ==
    /\ call.op = "take_all"
    /\ ~call.notified
    /\ props[call.prop_index].items = <<>>
    /\ ents[call.entity].inventory = <<>>

=============================================================================
